---- MODULE Spec2Model ----
(***************************************************************************)
(* Model of weatherbot's EnhancedConeAnalyzer                              *)
(* (src/src/weatherbot/enhanced_cone_analyzer.py).                         *)
(*                                                                         *)
(* One call of analyze_location_threat is a sequential run of steps, one   *)
(* per external call (four cone feeds, the alert service, the text         *)
(* documents) and one per loop iteration of the per-storm analysis.        *)
(* Coordinates are integers in tenths of a degree, distances integers in   *)
(* metres.  Python None / "" for a text field is the empty string, None    *)
(* or () for a position is the empty tuple: the code only ever tests       *)
(* these for truthiness.                                                   *)
(***************************************************************************)
EXTENDS Integers, Sequences, FiniteSets, TLC

VARIABLES
    pc,              \* position of the call
    latitude,        \* argument: target latitude  (tenths of a degree)
    longitude,       \* argument: target longitude (tenths of a degree)
    county,          \* arguments use_county_intersect / county_geojson_path
    feeds,           \* what the four feed collaborators deliver
    alert_svc,       \* what get_hurricane_alerts delivers
    docs,            \* what requests.get delivers for the six documents
    prims,           \* which geometry collaborators raise
    cones,           \* enhanced_cones / cones
    geometries,      \* geometries
    nws_alerts,      \* nws_alerts of analyze_location_threat
    nhc_alerts,      \* alerts of _get_nhc_alerts_for_location
    adv_i,           \* index into storm_advisories
    storm_i,         \* index of the zip(cones, geometries) loop
    assessed,        \* every StormThreat built by the loop, in order
    storm_threats,   \* storm_threats
    highest_threat,  \* highest_threat
    is_in_any_cone,  \* is_in_any_cone
    calls,           \* external calls made so far, in order
    result           \* the returned dict, NoResult before the return

vars == <<pc, latitude, longitude, county, feeds, alert_svc, docs, prims,
          cones, geometries, nws_alerts, nhc_alerts, adv_i, storm_i,
          assessed, storm_threats, highest_threat, is_in_any_cone,
          calls, result>>

----------------------------------------------------------------------------
(* Text: str.lower(), the `in` substring test, str.isdigit().              *)

Range(s) == {s[i] : i \in DOMAIN s}

\* the ASCII letters str.lower() changes
LowerMap ==
    [A |-> "a", B |-> "b", C |-> "c", D |-> "d", E |-> "e", F |-> "f",
     G |-> "g", H |-> "h", I |-> "i", J |-> "j", K |-> "k", L |-> "l",
     M |-> "m", N |-> "n", O |-> "o", P |-> "p", Q |-> "q", R |-> "r",
     S |-> "s", T |-> "t", U |-> "u", V |-> "v", W |-> "w", X |-> "x",
     Y |-> "y", Z |-> "z"]

LowerChar(c) == IF c \in DOMAIN LowerMap THEN LowerMap[c] ELSE c

\* str.lower(), character by character
RECURSIVE Lower(_)
Lower(s) ==
    IF Len(s) = 0 THEN ""
    ELSE IF Len(s) = 1 THEN LowerChar(s)
    ELSE Lower(SubSeq(s, 1, Len(s) \div 2))
           \o Lower(SubSeq(s, Len(s) \div 2 + 1, Len(s)))

\* Python `p in s` for two strings
Contains(s, p) ==
    \/ Len(p) = 0
    \/ \E i \in 1..(Len(s) - Len(p) + 1) : SubSeq(s, i, i + Len(p) - 1) = p

StartsWith(s, p) == Len(p) <= Len(s) /\ SubSeq(s, 1, Len(p)) = p

Digits == {"0", "1", "2", "3", "4", "5", "6", "7", "8", "9"}

\* any(char.isdigit() for char in s)
HasDigit(s) == \E i \in 1..Len(s) : SubSeq(s, i, i) \in Digits

IsSpace(c) == c \in {" ", "\t"}

\* str.strip()
RECURSIVE Strip(_)
Strip(s) ==
    IF Len(s) = 0 THEN ""
    ELSE IF IsSpace(SubSeq(s, 1, 1)) THEN Strip(SubSeq(s, 2, Len(s)))
    ELSE IF IsSpace(SubSeq(s, Len(s), Len(s)))
    THEN Strip(SubSeq(s, 1, Len(s) - 1))
    ELSE s

----------------------------------------------------------------------------
(* AlertLevel (weatherbot.alert_levels), ordered by its integer value.     *)

ALL_CLEAR == 1
TROPICAL_STORM_THREAT == 2
TROPICAL_STORM_WATCH_HURRICANE_THREAT == 3
TROPICAL_STORM_WARNING_HURRICANE_WATCH_EVACUATION == 4
HURRICANE_WARNING == 5

AlertLevel == ALL_CLEAR..HURRICANE_WARNING

Max2(a, b) == IF a > b THEN a ELSE b

----------------------------------------------------------------------------
(* Geometry and NHCCone records.                                           *)

\* a shapely geometry as far as the analyzer looks at it: its area in
\* square degrees, the grid points it contains (boundary included) and its
\* centroid (<<>> when taking the centroid raises)
Geometry(a, cov, cen) ==
    [present |-> TRUE, area |-> a, covers |-> cov, centroid |-> cen]

\* cone.geometry is None
NoGeometry ==
    [present |-> FALSE, area |-> 0, covers |-> {}, centroid |-> <<>>]

\* cone.max_winds is a number (None counts as 0: `cone.max_winds or 0`) or
\* a text
Knots(n) == [is_str |-> FALSE, int |-> n, str |-> ""]
KnotsText(s) == [is_str |-> TRUE, int |-> 0, str |-> s]

NHCCone(id, name, type, geom, pos, adv, mov, winds) ==
    [storm_id |-> id, storm_name |-> name, storm_type |-> type,
     geometry |-> geom, current_position |-> pos, advisory_num |-> adv,
     movement |-> mov, max_winds |-> Knots(winds)]

----------------------------------------------------------------------------
(* The grid of points the model places targets and storms on.              *)

NassauPt  == <<250, -770>>   \* in the northwestern and the central sub-box
ExumaPt   == <<240, -760>>   \* in the central sub-box only
EastPt    == <<265, -730>>   \* in the region, in neither sub-box
NorthPt   == <<300, -800>>   \* outside the region
CornerSW  == <<230, -800>>   \* on the region's boundary
CornerNE  == <<270, -720>>   \* on the region's boundary
AboveBox  == <<271, -760>>   \* a tenth of a degree north of the region
WestOfBox == <<230, -801>>   \* a tenth of a degree west of the region

Targets ==
    {NassauPt, ExumaPt, EastPt, NorthPt, CornerSW, CornerNE, AboveBox,
     WestOfBox}

NearPos  == <<245, -765>>
EdgeIn   == <<350, -600>>    \* just inside 2000 km of NassauPt and ExumaPt
EdgeOut  == <<360, -600>>    \* just outside 2000 km of NassauPt and ExumaPt
FarPos   == <<150, -300>>

\* great-circle distances in metres, radius 6371 km, of the grid's pairs
HaversineTable ==
    <<250, -770, 245, -765>> :> 75102 @@
    <<250, -770, 350, -600>> :> 1974286 @@
    <<250, -770, 360, -600>> :> 2031546 @@
    <<250, -770, 150, -300>> :> 5009949 @@
    <<240, -760, 245, -765>> :> 75238 @@
    <<240, -760, 350, -600>> :> 1968641 @@
    <<240, -760, 360, -600>> :> 2033007 @@
    <<240, -760, 150, -300>> :> 4902567 @@
    <<265, -730, 245, -765>> :> 415716 @@
    <<265, -730, 350, -600>> :> 1558541 @@
    <<265, -730, 360, -600>> :> 1622942 @@
    <<265, -730, 150, -300>> :> 4626688 @@
    <<300, -800, 245, -765>> :> 702536 @@
    <<300, -800, 350, -600>> :> 1952356 @@
    <<300, -800, 360, -600>> :> 1976363 @@
    <<300, -800, 150, -300>> :> 5354642 @@
    <<230, -800, 245, -765>> :> 393315 @@
    <<230, -800, 350, -600>> :> 2351158 @@
    <<230, -800, 360, -600>> :> 2407301 @@
    <<230, -800, 150, -300>> :> 5307064 @@
    <<270, -720, 245, -765>> :> 529455 @@
    <<270, -720, 350, -600>> :> 1446989 @@
    <<270, -720, 360, -600>> :> 1512921 @@
    <<270, -720, 150, -300>> :> 4535865 @@
    <<271, -760, 245, -765>> :> 293407 @@
    <<271, -760, 350, -600>> :> 1755880 @@
    <<271, -760, 360, -600>> :> 1806672 @@
    <<271, -760, 150, -300>> :> 4930189 @@
    <<230, -801, 245, -765>> :> 402554 @@
    <<230, -801, 350, -600>> :> 2359114 @@
    <<230, -801, 360, -600>> :> 2414984 @@
    <<230, -801, 150, -300>> :> 5317300

\* haversine_distance(lat1, lon1, lat2, lon2), in metres
haversine_distance(lat1, lon1, lat2, lon2) ==
    IF lat1 = lat2 /\ lon1 = lon2 THEN 0
    ELSE HaversineTable[<<lat1, lon1, lat2, lon2>>]

\* Point(lon, lat).buffer(2.0): the disc of radius 2 degrees around a point
Buffer(pos) ==
    Geometry(12,
             {t \in Targets :
                 (t[1] - pos[1]) * (t[1] - pos[1])
                   + (t[2] - pos[2]) * (t[2] - pos[2]) <= 20 * 20},
             pos)

SeqsUpTo(S, n) == UNION {[1..k -> S] : k \in 0..n}

----------------------------------------------------------------------------
(* Source aggregation: _get_enhanced_storm_data, _enhance_with_atcf_data.  *)

\* what a collaborator call delivers: a value, or an exception
Returns(v) == [ok |-> TRUE, val |-> v]
Raises == [ok |-> FALSE, val |-> <<>>]

\* {cone.storm_id for cone in enhanced_cones if cone.storm_id}
existing_ids(cs) == {cs[i].storm_id : i \in DOMAIN cs} \ {""}

\* feed A: enhanced_cones.extend(individual_storm_cones)
merge_individual(cs, r) ==
    IF r.ok THEN cs \o r.val ELSE cs

\* (a slip: no membership test)
append_all(cs, feed) == cs \o feed

\* feeds B and D: append the entries whose identifier is not in the set of
\* identifiers taken before the loop
append_new_only(cs, feed) ==
    cs \o SelectSeq(feed, LAMBDA c : c.storm_id \notin existing_ids(cs))

\* (a slip: an entry whose identifier is already in the list replaces the
\* record that has it)
merge_current_storms_replaces(cs, r) ==
    IF r.ok
    THEN append_new_only(
             [i \in DOMAIN cs |->
                 IF \E j \in DOMAIN r.val :
                        r.val[j].storm_id = cs[i].storm_id
                 THEN r.val[CHOOSE j \in DOMAIN r.val :
                                r.val[j].storm_id = cs[i].storm_id]
                 ELSE cs[i]],
             r.val)
    ELSE cs

merge_current_storms(cs, r) ==
    IF r.ok THEN append_new_only(cs, r.val) ELSE cs

\* (a slip: the except branch of feed D drops what the other feeds gave)
merge_mapserver_drops(cs, r) ==
    IF r.ok THEN append_new_only(cs, r.val) ELSE <<>>

merge_mapserver(cs, r) ==
    IF r.ok THEN append_new_only(cs, r.val) ELSE cs

\* the test of the inner loop of _enhance_with_atcf_data
\* (a slip: the name is not looked at)
atcf_matches_by_id_only(cone, invest_id) == cone.storm_id = invest_id

atcf_matches(cone, invest_id) ==
    \/ cone.storm_id = invest_id
    \/ /\ cone.storm_name # ""
       /\ Contains(Lower(cone.storm_name), Lower(invest_id))

\* index of the first cone the inner loop stops at, 0 when it finds none
atcf_found(cs, invest_id) ==
    IF \E i \in DOMAIN cs : atcf_matches(cs[i], invest_id)
    THEN CHOOSE i \in DOMAIN cs :
            /\ atcf_matches(cs[i], invest_id)
            /\ \A j \in 1..(i - 1) : ~atcf_matches(cs[j], invest_id)
    ELSE 0

atcf_new_cone(invest_id, position) ==
    NHCCone(invest_id, "Invest " \o invest_id, "Tropical Disturbance",
            Buffer(position), position, "ATCF", "", 0)

\* one iteration of `for invest_id, position in atcf_positions.items()`
enhance_one(cs, item) ==
    LET i == atcf_found(cs, item[1])
    IN  IF i # 0
        THEN [cs EXCEPT ![i].current_position = item[2]]
        ELSE Append(cs, atcf_new_cone(item[1], item[2]))

RECURSIVE enhance_with_atcf_data(_, _)
enhance_with_atcf_data(cs, atcf_positions) ==
    IF atcf_positions = <<>> THEN cs
    ELSE enhance_with_atcf_data(enhance_one(cs, Head(atcf_positions)),
                                Tail(atcf_positions))

merge_atcf(cs, r) ==
    IF r.ok THEN enhance_with_atcf_data(cs, r.val) ELSE cs

\* geometries = [cone.geometry for cone in enhanced_cones]
extract_geometries(cs) == [i \in DOMAIN cs |-> cs[i].geometry]

\* _get_enhanced_storm_data as a whole: the cone list it returns
get_enhanced_storm_data(f) ==
    merge_mapserver(
        merge_atcf(
            merge_current_storms(merge_individual(<<>>, f.A), f.B),
            f.C),
        f.D)

\* (a slip: a failed call of the first feed is made a second time)
FeedA_retries_once ==
    /\ pc = "feedA"
    /\ calls' = Append(calls, "get_all_active_storm_cones")
    /\ cones' = merge_individual(cones, feeds.A)
    /\ pc' = IF ~feeds.A.ok /\ calls = <<>> THEN "feedA" ELSE "feedB"
    /\ UNCHANGED <<latitude, longitude, county, feeds, alert_svc, docs,
                   prims, geometries, nws_alerts, nhc_alerts, adv_i, storm_i,
                   assessed, storm_threats, highest_threat, is_in_any_cone,
                   result>>

FeedA ==
    /\ pc = "feedA"
    /\ calls' = Append(calls, "get_all_active_storm_cones")
    /\ cones' = merge_individual(cones, feeds.A)
    /\ pc' = "feedB"
    /\ UNCHANGED <<latitude, longitude, county, feeds, alert_svc, docs,
                   prims, geometries, nws_alerts, nhc_alerts, adv_i, storm_i,
                   assessed, storm_threats, highest_threat, is_in_any_cone,
                   result>>

FeedB ==
    /\ pc = "feedB"
    /\ calls' = Append(calls, "get_current_storms_with_positions")
    /\ cones' = merge_current_storms(cones, feeds.B)
    /\ pc' = "feedC"
    /\ UNCHANGED <<latitude, longitude, county, feeds, alert_svc, docs,
                   prims, geometries, nws_alerts, nhc_alerts, adv_i, storm_i,
                   assessed, storm_threats, highest_threat, is_in_any_cone,
                   result>>

FeedC ==
    /\ pc = "feedC"
    /\ calls' = Append(calls, "get_atcf_invest_positions")
    /\ cones' = merge_atcf(cones, feeds.C)
    /\ pc' = "feedD"
    /\ UNCHANGED <<latitude, longitude, county, feeds, alert_svc, docs,
                   prims, geometries, nws_alerts, nhc_alerts, adv_i, storm_i,
                   assessed, storm_threats, highest_threat, is_in_any_cone,
                   result>>

FeedD ==
    /\ pc = "feedD"
    /\ calls' = Append(calls, "get_active_cones")
    /\ cones' = merge_mapserver(cones, feeds.D)
    /\ geometries' = extract_geometries(cones')
    /\ pc' = "filter"
    /\ UNCHANGED <<latitude, longitude, county, feeds, alert_svc, docs,
                   prims, nws_alerts, nhc_alerts, adv_i, storm_i,
                   assessed, storm_threats, highest_threat, is_in_any_cone,
                   result>>

----------------------------------------------------------------------------
(* Relevance filter: _filter_storms_by_distance.                           *)

\* (a slip: a storm with neither position nor geometry is dropped)
filter_keeps_fail_closed(cone, target_lat, target_lon, max_distance_km) ==
    IF Len(cone.current_position) = 2
    THEN haversine_distance(target_lat, target_lon,
                            cone.current_position[1],
                            cone.current_position[2])
            <= max_distance_km * 1000
    ELSE IF cone.geometry.present
         THEN IF cone.geometry.centroid = <<>>
              THEN TRUE
              ELSE haversine_distance(target_lat, target_lon,
                                      cone.geometry.centroid[1],
                                      cone.geometry.centroid[2])
                      <= max_distance_km * 1000
         ELSE FALSE

\* the body of `for cone in cones`: TRUE when the cone is appended
filter_keeps(cone, target_lat, target_lon, max_distance_km) ==
    IF Len(cone.current_position) = 2
    THEN haversine_distance(target_lat, target_lon,
                            cone.current_position[1],
                            cone.current_position[2])
            <= max_distance_km * 1000
    ELSE IF cone.geometry.present
         THEN IF cone.geometry.centroid = <<>>
              THEN TRUE    \* the centroid raised: include the storm anyway
              ELSE haversine_distance(target_lat, target_lon,
                                      cone.geometry.centroid[1],
                                      cone.geometry.centroid[2])
                      <= max_distance_km * 1000
         ELSE TRUE

filter_storms_by_distance(cs, target_lat, target_lon, max_distance_km) ==
    SelectSeq(cs, LAMBDA c :
                    filter_keeps(c, target_lat, target_lon, max_distance_km))

\* the radius analyze_location_threat passes to the filter
RelevanceRadiusKm == 2000

\* geometries = [cone.geometry for cone in cones if cone.geometry]
truthy_geometries(cs) ==
    LET kept == SelectSeq(cs, LAMBDA c : c.geometry.present)
    IN  [i \in DOMAIN kept |-> kept[i].geometry]

----------------------------------------------------------------------------
(* Intersection test: _check_precise_intersection.                         *)

LargeArea == 50

is_named_storm(cone) ==
    LET storm_name == Lower(cone.storm_name)
        storm_type == Lower(cone.storm_type)
        storm_id   == Lower(cone.storm_id)
    IN  \/ Contains(storm_type, "named storm")
        \/ Contains(storm_type, "hurricane")
        \/ Contains(storm_type, "tropical storm")
        \/ Contains(storm_type, "potential tropical cyclone")
        \/ Contains(storm_name, "cyclone")
        \/ (storm_name # "" /\ storm_name \notin {"unknown", "invest"})
        \/ (storm_id # "" /\ HasDigit(storm_id) /\ Contains(storm_id, "al"))

\* a value returned, or an exception leaving the function
Value(v) == [raised |-> FALSE, value |-> v]
Raised == [raised |-> TRUE, value |-> FALSE]

\* point_in_any([geometry], (longitude, latitude))
point_in_any(geometry, lat, lon, pr) ==
    IF pr.point_raises \/ ~geometry.present THEN Raised
    ELSE Value(<<lat, lon>> \in geometry.covers)

\* load_county_polygon(path) followed by polygon_intersects_any
county_intersects(geometry, cty, pr) ==
    IF pr.loader_raises \/ pr.poly_raises \/ ~geometry.present THEN Raised
    ELSE Value(geometry.covers \cap cty.polygon # {})

\* (a slip: every large geometry is skipped, named or not)
area_filter_excludes_all_large(geometry, cone) ==
    geometry.present /\ geometry.area > LargeArea

\* the area filter at the head of the try block: TRUE when it returns False
area_filter_excludes(geometry, cone) ==
    geometry.present /\ geometry.area > LargeArea /\ ~is_named_storm(cone)

check_precise_intersection(geometry, lat, lon, cty, cone, pr) ==
    IF area_filter_excludes(geometry, cone) THEN Value(FALSE)
    ELSE LET first == IF cty.use /\ cty.path # ""
                      THEN county_intersects(geometry, cty, pr)
                      ELSE point_in_any(geometry, lat, lon, pr)
         IN  IF first.raised
             THEN point_in_any(geometry, lat, lon, pr)   \* except: fallback
             ELSE first

----------------------------------------------------------------------------
(* Categorization: _categorize_storm.                                      *)

DigitValue ==
    [c \in Digits |->
        CASE c = "0" -> 0 [] c = "1" -> 1 [] c = "2" -> 2 [] c = "3" -> 3
          [] c = "4" -> 4 [] c = "5" -> 5 [] c = "6" -> 6 [] c = "7" -> 7
          [] c = "8" -> 8 [] c = "9" -> 9]

IsDigits(s) ==
    Len(s) > 0 /\ \A i \in 1..Len(s) : SubSeq(s, i, i) \in Digits

RECURSIVE DecimalValue(_)
DecimalValue(s) ==
    IF Len(s) = 0 THEN 0
    ELSE 10 * DecimalValue(SubSeq(s, 1, Len(s) - 1))
           + DigitValue[SubSeq(s, Len(s), Len(s))]

\* int(text): surrounding blanks and one sign are accepted, anything else
\* but decimal digits raises ValueError
int_of_str(text) ==
    LET t    == Strip(text)
        sign == IF Len(t) > 0 THEN SubSeq(t, 1, 1) ELSE ""
        body == IF sign \in {"+", "-"} THEN SubSeq(t, 2, Len(t)) ELSE t
    IN  IF ~IsDigits(body) THEN [raised |-> TRUE, value |-> 0]
        ELSE IF sign = "-" THEN Value(0 - DecimalValue(body))
        ELSE Value(DecimalValue(body))

\* max_winds = cone.max_winds or 0, then the conversion of a text
coerce_max_winds(w) ==
    IF ~w.is_str THEN w.int
    ELSE IF w.str = "" THEN 0
    ELSE IF int_of_str(w.str).raised THEN 0
    ELSE int_of_str(w.str).value

\* (a slip: the threshold is exclusive)
is_category_3_above(max_winds) == max_winds > 111

\* max_winds >= 111  # Category 3+
is_category_3(max_winds) == max_winds >= 111

categorize_storm(cone) ==
    LET storm_type == Lower(cone.storm_type)
        storm_name == Lower(cone.storm_name)
        max_winds  == coerce_max_winds(cone.max_winds)
    IN  IF Contains(storm_type, "hurricane") \/ max_winds >= 74
        THEN IF is_category_3(max_winds) THEN "major_hurricane"
             ELSE "minor_hurricane"
        ELSE IF \/ Contains(storm_type, "tropical storm")
                \/ Contains(storm_type, "storm")
                \/ (39 <= max_winds /\ max_winds < 74)
        THEN "tropical_storm"
        ELSE IF Contains(storm_type, "depression")
                  \/ (0 < max_winds /\ max_winds < 39)
        THEN "tropical_depression"
        ELSE IF \/ Contains(storm_name, "invest")
                \/ Contains(storm_type, "disturbance")
                \/ Contains(storm_type, "development")
                \/ (cone.storm_id # "" /\ Contains(cone.storm_id, "9"))
        THEN "invest_disturbance"
        ELSE IF Contains(storm_name, "development")
                  \/ Contains(storm_name, "area")
        THEN "development_area"
        ELSE "unknown"

----------------------------------------------------------------------------
(* Threat level: _determine_threat_level, _apply_nws_overrides.            *)

\* the if/elif chain over an alert's event; 0 when no phrase matches
event_level(event) ==
    LET e == Lower(event)
    IN  IF Contains(e, "hurricane warning") THEN HURRICANE_WARNING
        ELSE IF Contains(e, "hurricane watch")
        THEN TROPICAL_STORM_WARNING_HURRICANE_WATCH_EVACUATION
        ELSE IF Contains(e, "tropical storm warning")
        THEN TROPICAL_STORM_WARNING_HURRICANE_WATCH_EVACUATION
        ELSE IF Contains(e, "tropical storm watch")
        THEN TROPICAL_STORM_WATCH_HURRICANE_THREAT
        ELSE 0

\* (a slip: a major hurricane is given the warning tier)
category_level_major_is_warning(category) ==
    IF category = "major_hurricane" THEN HURRICANE_WARNING
    ELSE IF category = "minor_hurricane"
    THEN TROPICAL_STORM_WATCH_HURRICANE_THREAT
    ELSE IF category \in {"tropical_storm", "tropical_depression",
                          "invest_disturbance"}
    THEN TROPICAL_STORM_THREAT
    ELSE ALL_CLEAR

category_level(category) ==
    IF category = "major_hurricane"
    THEN TROPICAL_STORM_WARNING_HURRICANE_WATCH_EVACUATION
    ELSE IF category = "minor_hurricane"
    THEN TROPICAL_STORM_WATCH_HURRICANE_THREAT
    ELSE IF category = "tropical_storm" THEN TROPICAL_STORM_THREAT
    ELSE IF category \in {"tropical_depression", "invest_disturbance"}
    THEN TROPICAL_STORM_THREAT
    ELSE ALL_CLEAR

\* (a slip: the scan does not stop at the first match)
RECURSIVE last_alert_level(_)
last_alert_level(alerts) ==
    IF alerts = <<>> THEN 0
    ELSE IF last_alert_level(Tail(alerts)) # 0
         THEN last_alert_level(Tail(alerts))
         ELSE event_level(Head(alerts).event)

\* the level of the first alert of the list that matches a phrase, 0 if none
RECURSIVE first_alert_level(_)
first_alert_level(alerts) ==
    IF alerts = <<>> THEN 0
    ELSE IF event_level(Head(alerts).event) # 0
         THEN event_level(Head(alerts).event)
         ELSE first_alert_level(Tail(alerts))

\* (a slip: the alerts are looked at before the in-cone flag)
determine_threat_level_alerts_first(cone, category, in_cone, alerts) ==
    IF first_alert_level(alerts) # 0 THEN first_alert_level(alerts)
    ELSE IF ~in_cone THEN ALL_CLEAR
    ELSE category_level(category)

determine_threat_level(cone, category, in_cone, alerts) ==
    IF ~in_cone THEN ALL_CLEAR
    ELSE IF first_alert_level(alerts) # 0 THEN first_alert_level(alerts)
    ELSE category_level(category)

\* the loop of _apply_nws_overrides, from highest_nws_level = highest
RECURSIVE scan_nws_levels(_, _)
scan_nws_levels(alerts, highest) ==
    IF alerts = <<>> THEN highest
    ELSE LET nws_level == event_level(Head(alerts).event)
         IN  scan_nws_levels(Tail(alerts),
                             IF nws_level # 0 /\ nws_level > highest
                             THEN nws_level ELSE highest)

highest_nws_level(alerts) == scan_nws_levels(alerts, ALL_CLEAR)

\* (a slip: the alerts' level replaces the current level)
apply_nws_overrides_replaces(current_level, alerts) ==
    highest_nws_level(alerts)

apply_nws_overrides(current_level, alerts) ==
    IF highest_nws_level(alerts) > current_level
    THEN highest_nws_level(alerts)
    ELSE current_level

----------------------------------------------------------------------------
(* Distance, confidence, warnings: the other fields of a StormThreat.      *)

\* _calculate_distance: None is -1; unpacking a position that is not a
\* pair raises
calculate_distance(cone, lat, lon) ==
    IF cone.current_position = <<>> THEN Value(-1)
    ELSE IF Len(cone.current_position) # 2 THEN [raised |-> TRUE, value |-> -1]
    ELSE Value(haversine_distance(lat, lon, cone.current_position[1],
                                  cone.current_position[2]))

Well_defined == {"major_hurricane", "minor_hurricane", "tropical_storm"}

\* (a slip: the bonus of a named storm is 0.3 and the cap is missing)
calculate_confidence_uncapped(cone, category) ==
    5 + (IF cone.storm_name # ""
            /\ ~Contains(Lower(cone.storm_name), "unknown")
         THEN 3 ELSE 0)
      + (IF cone.advisory_num # "" /\ cone.advisory_num # "Unknown"
         THEN 1 ELSE 0)
      + (IF cone.current_position # <<>> THEN 1 ELSE 0)
      + (IF category \in Well_defined THEN 1 ELSE 0)

\* _calculate_confidence, in tenths
calculate_confidence(cone, category) ==
    LET c == 5
             + (IF cone.storm_name # ""
                   /\ ~Contains(Lower(cone.storm_name), "unknown")
                THEN 2 ELSE 0)
             + (IF cone.advisory_num # "" /\ cone.advisory_num # "Unknown"
                THEN 1 ELSE 0)
             + (IF cone.current_position # <<>> THEN 1 ELSE 0)
             + (IF category \in Well_defined THEN 1 ELSE 0)
    IN  IF c > 10 THEN 10 ELSE c

\* _get_relevant_warnings
get_relevant_warnings(cone, alerts) ==
    LET storm_name == Lower(cone.storm_name)
        hits == SelectSeq(alerts, LAMBDA a :
                    storm_name # ""
                    /\ Contains(Lower(a.description), storm_name))
    IN  [i \in DOMAIN hits |-> hits[i].event]

\* the units of r'(\d+)\s*(?:mph|kph|km/h|knots)'
SpeedUnits == {"mph", "kph", "km/h", "knots"}

\* the end of the longest run of digits that starts at i
digits_end(s, i) ==
    LET ends == {j \in i..Len(s) :
                    \A k \in i..j : SubSeq(s, k, k) \in Digits}
    IN  CHOOSE j \in ends : \A k \in ends : k <= j

\* the first position at or after i that holds no white space
spaces_end(s, i) ==
    LET rest == {j \in i..Len(s) : ~IsSpace(SubSeq(s, j, j))}
    IN  IF rest = {} THEN Len(s) + 1
        ELSE CHOOSE j \in rest : \A k \in rest : j <= k

\* the unit the pattern matches when its number starts at i, "" when it
\* does not match there
unit_at(s, i) ==
    IF SubSeq(s, i, i) \notin Digits THEN ""
    ELSE LET rest == SubSeq(s, spaces_end(s, digits_end(s, i) + 1), Len(s))
             units == {u \in SpeedUnits : StartsWith(rest, u)}
         IN  IF units = {} THEN "" ELSE CHOOSE u \in units : TRUE

\* re.search: the leftmost match, its number and its unit
speed_match(movement) ==
    LET starts == {i \in 1..Len(movement) : unit_at(movement, i) # ""}
    IN  IF starts = {} THEN [found |-> FALSE, speed |-> 0, unit |-> ""]
        ELSE LET i == CHOOSE j \in starts : \A k \in starts : j <= k
             IN  [found |-> TRUE,
                  speed |-> DecimalValue(SubSeq(movement, i,
                                                digits_end(movement, i))),
                  unit  |-> unit_at(movement, i)]

\* speed_kph in metres per hour: 15 by default, speed * 1.6 when "mph" or
\* "knots" stands anywhere in the movement text, else speed
speed_m_per_hour(movement) ==
    LET speed_match_ == speed_match(movement)
    IN  IF ~speed_match_.found THEN 15000
        ELSE IF Contains(movement, "mph") \/ Contains(movement, "knots")
        THEN speed_match_.speed * 1600
        ELSE speed_match_.speed * 1000

\* _estimate_arrival_time: None is -1; `not distance_km` holds of None and
\* of 0.0
estimate_arrival_time(cone, lat, lon) ==
    IF cone.current_position = <<>> \/ cone.movement = "" THEN -1
    ELSE LET distance_m == calculate_distance(cone, lat, lon).value
             speed == speed_m_per_hour(Lower(cone.movement))
         IN  IF distance_m <= 0 THEN -1
             ELSE IF speed > 0 THEN distance_m \div speed
             ELSE -1

\* _analyze_storm_threat leaves by an exception: the intersection test's
\* fallback raised, or _calculate_distance could not unpack the position
analyze_storm_threat_raises(cone, geometry, lat, lon, cty, pr) ==
    \/ check_precise_intersection(geometry, lat, lon, cty, cone, pr).raised
    \/ calculate_distance(cone, lat, lon).raised

\* _analyze_storm_threat: the StormThreat it returns
analyze_storm_threat(cone, geometry, lat, lon, cty, alerts, pr) ==
    LET in_cone  == check_precise_intersection(geometry, lat, lon, cty,
                                               cone, pr).value
        category == categorize_storm(cone)
    IN  [cone |-> cone,
         category |-> category,
         in_cone |-> in_cone,
         distance_m |-> calculate_distance(cone, lat, lon).value,
         threat_level |->
             determine_threat_level(cone, category, in_cone, alerts),
         confidence |-> calculate_confidence(cone, category),
         official_warnings |-> get_relevant_warnings(cone, alerts),
         estimated_arrival_hours |-> estimate_arrival_time(cone, lat, lon)]

----------------------------------------------------------------------------
(* Alert fetching: _get_nws_alerts, _get_nhc_alerts_for_location.          *)

\* an alert as the analyzer reads it: .event / ["event"], description, ...
Alert(event, description, severity, urgency, source) ==
    [event |-> event, description |-> description, severity |-> severity,
     urgency |-> urgency, source |-> source]

\* (a slip: the longitude test is missing)
in_bahamas_region_by_latitude(lat, lon) == 230 <= lat /\ lat <= 270

\* 23.0 <= latitude <= 27.0 and -80.0 <= longitude <= -72.0
in_bahamas_region(lat, lon) ==
    230 <= lat /\ lat <= 270 /\ -800 <= lon /\ lon <= -720

\* (a slip: the longitude test is missing)
in_northwestern_box_by_latitude(lat, lon) == lat >= 245 /\ lat <= 265

in_northwestern_box(lat, lon) ==
    lat >= 245 /\ lat <= 265 /\ lon >= -785 /\ lon <= -765

in_central_box(lat, lon) ==
    lat >= 230 /\ lat <= 250 /\ lon >= -770 /\ lon <= -750

\* a document is a sequence of lines; response.text.lower()
lower_text(lines) == [i \in DOMAIN lines |-> Lower(lines[i])]

\* `phrase in text`, for a phrase without a line break
text_has(text, phrase) == \E i \in DOMAIN text : Contains(text[i], phrase)

Optional(cond, alert) == IF cond THEN <<alert>> ELSE <<>>

\* the outlook document: lines 716-760
outlook_alerts(doc) ==
    IF doc.raises \/ doc.status_code # 200 THEN <<>>
    ELSE LET text == lower_text(doc.text)
         IN  IF text_has(text, "bahamas") \/ text_has(text, "nassau")
             THEN Optional(text_has(text, "tropical storm watch"),
                    Alert("Tropical Storm Watch",
                          "Tropical Storm Watch in effect for portions of the Bahamas",
                          "Moderate", "Expected", "NHC"))
                  \o Optional(text_has(text, "tropical storm warning"),
                    Alert("Tropical Storm Warning",
                          "Tropical Storm Warning in effect for portions of the Bahamas",
                          "Moderate", "Immediate", "NHC"))
                  \o Optional(text_has(text, "hurricane watch"),
                    Alert("Hurricane Watch",
                          "Hurricane Watch in effect for portions of the Bahamas",
                          "Severe", "Expected", "NHC"))
                  \o Optional(text_has(text, "hurricane warning"),
                    Alert("Hurricane Warning",
                          "Hurricane Warning in effect for portions of the Bahamas",
                          "Extreme", "Immediate", "NHC"))
             ELSE <<>>

NorthwesternPlaces == {"northwestern bahamas", "new providence"}
CentralPlaces == {"central bahamas", "exuma", "exumas"}

NorthwesternArea == "northwestern Bahamas including New Providence"
CentralArea == "central Bahamas including Exuma"

\* (a slip: a line that starts with "a " and names a watch or warning does
\* not close the section)
RECURSIVE scan_sections_never_closes(_, _, _, _, _)
scan_sections_never_closes(lines, in_watch_section, in_warning_section, places, area) ==
    IF lines = <<>> THEN <<>>
    ELSE
      LET line_clean == Lower(Strip(Head(lines)))
          named == \E pl \in places : Contains(line_clean, pl)
      IN  IF Contains(line_clean, "tropical storm watch is in effect for")
          THEN scan_sections_never_closes(Tail(lines), TRUE, FALSE, places,
                                          area)
          ELSE IF Contains(line_clean,
                           "tropical storm warning is in effect for")
          THEN scan_sections_never_closes(Tail(lines), FALSE, TRUE, places,
                                          area)
          ELSE IF in_watch_section /\ named
          THEN <<Alert("Tropical Storm Watch",
                       "Tropical Storm Watch in effect for " \o area,
                       "Moderate", "Expected", "NHC")>>
          ELSE IF in_warning_section /\ named
          THEN <<Alert("Tropical Storm Warning",
                       "Tropical Storm Warning in effect for " \o area,
                       "Moderate", "Immediate", "NHC")>>
          ELSE scan_sections_never_closes(Tail(lines), in_watch_section,
                                          in_warning_section, places, area)

\* the line loop of a sub-box: at most one alert, then break
RECURSIVE scan_sections(_, _, _, _, _)
scan_sections(lines, in_watch_section, in_warning_section, places, area) ==
    IF lines = <<>> THEN <<>>
    ELSE
      LET line_clean == Lower(Strip(Head(lines)))
          named == \E pl \in places : Contains(line_clean, pl)
      IN  IF Contains(line_clean, "tropical storm watch is in effect for")
          THEN scan_sections(Tail(lines), TRUE, FALSE, places, area)
          ELSE IF Contains(line_clean,
                           "tropical storm warning is in effect for")
          THEN scan_sections(Tail(lines), FALSE, TRUE, places, area)
          ELSE IF /\ StartsWith(line_clean, "a ")
                  /\ \/ Contains(line_clean, "watch")
                     \/ Contains(line_clean, "warning")
          THEN scan_sections(Tail(lines), FALSE, FALSE, places, area)
          ELSE IF in_watch_section /\ named
          THEN <<Alert("Tropical Storm Watch",
                       "Tropical Storm Watch in effect for " \o area,
                       "Moderate", "Expected", "NHC")>>
          ELSE IF in_warning_section /\ named
          THEN <<Alert("Tropical Storm Warning",
                       "Tropical Storm Warning in effect for " \o area,
                       "Moderate", "Immediate", "NHC")>>
          ELSE scan_sections(Tail(lines), in_watch_section,
                             in_warning_section, places, area)

\* "other Bahamas areas": whole-document checks, lines 905-925
general_detection(text) ==
    Optional(text_has(text, "tropical storm watch")
                /\ text_has(text, "bahamas"),
             Alert("Tropical Storm Watch",
                   "Tropical Storm Watch in effect for portions of the Bahamas",
                   "Moderate", "Expected", "NHC"))
    \o Optional(text_has(text, "tropical storm warning")
                   /\ text_has(text, "bahamas"),
                Alert("Tropical Storm Warning",
                      "Tropical Storm Warning in effect for portions of the Bahamas",
                      "Moderate", "Immediate", "NHC"))

\* one advisory document: lines 775-948 (the "storm" label of the
\* synthesized dicts, which nothing in the analyzer reads, is left out)
advisory_alerts(doc, lat, lon) ==
    IF doc.raises \/ doc.status_code # 200 THEN <<>>
    ELSE LET adv_text == lower_text(doc.text)
             mentions == text_has(adv_text, "bahamas")
                           \/ text_has(adv_text, "nassau")
         IN  IF ~mentions THEN <<>>
             ELSE (IF in_northwestern_box(lat, lon)
                   THEN scan_sections(adv_text, FALSE, FALSE,
                                      NorthwesternPlaces, NorthwesternArea)
                   ELSE IF in_central_box(lat, lon)
                   THEN scan_sections(adv_text, FALSE, FALSE,
                                      CentralPlaces, CentralArea)
                   ELSE general_detection(adv_text))
                  \o Optional(text_has(adv_text, "hurricane watch") /\ mentions,
                       Alert("Hurricane Watch",
                             "Hurricane Watch in effect for portions of the Bahamas",
                             "Severe", "Expected", "NHC"))
                  \o Optional(text_has(adv_text, "hurricane warning")
                                 /\ mentions,
                       Alert("Hurricane Warning",
                             "Hurricane Warning in effect for portions of the Bahamas",
                             "Extreme", "Immediate", "NHC"))

\* storm_advisories, in list order
storm_advisories ==
    <<"MIATCPAT4", "MIATCPAT3", "MIATCPAT1", "MIATCPAT2", "MIATCPAT5">>


\* _get_nhc_alerts_for_location as a whole: the region gate, the outlook,
\* then the advisories in list order
get_nhc_alerts_for_location(d, lat, lon) ==
    IF ~in_bahamas_region(lat, lon) THEN <<>>
    ELSE outlook_alerts(d.outlook)
           \o advisory_alerts(d.advisories[1], lat, lon)
           \o advisory_alerts(d.advisories[2], lat, lon)
           \o advisory_alerts(d.advisories[3], lat, lon)
           \o advisory_alerts(d.advisories[4], lat, lon)
           \o advisory_alerts(d.advisories[5], lat, lon)

\* nws_alerts + nhc_alerts inside the try, [] from the except
get_nws_alerts(r, nhc) == IF r.ok THEN r.val \o nhc ELSE <<>>

----------------------------------------------------------------------------
(* analyze_location_threat, step by step.                                  *)

\* (a slip: the running maximum starts one level up)
initial_threat_one_up == TROPICAL_STORM_THREAT

\* highest_threat = AlertLevel.ALL_CLEAR
initial_threat == ALL_CLEAR

NoResult ==
    [alert_level |-> 0, storm_threats |-> <<>>, is_in_any_cone |-> FALSE,
     nws_alerts |-> <<>>, total_storms_analyzed |-> -1]

Min2(a, b) == IF a < b THEN a ELSE b

\* number of pairs zip(cones, geometries) yields
zip_len == Min2(Len(cones), Len(geometries))

Filter ==
    /\ pc = "filter"
    /\ IF cones # <<>>
       THEN /\ cones' = filter_storms_by_distance(cones, latitude, longitude,
                                                  RelevanceRadiusKm)
            /\ geometries' = truthy_geometries(cones')
       ELSE UNCHANGED <<cones, geometries>>
    /\ pc' = "alerts"
    /\ UNCHANGED <<latitude, longitude, county, feeds, alert_svc, docs,
                   prims, nws_alerts, nhc_alerts, adv_i, storm_i, assessed,
                   storm_threats, highest_threat, is_in_any_cone, calls,
                   result>>

\* get_hurricane_alerts, then the region gate of the secondary source
AlertService ==
    /\ pc = "alerts"
    /\ calls' = Append(calls, "get_hurricane_alerts")
    /\ nhc_alerts' = <<>>
    /\ IF alert_svc.ok /\ in_bahamas_region(latitude, longitude)
       THEN /\ pc' = "outlook"
            /\ UNCHANGED nws_alerts
       ELSE /\ pc' = "analyze"
            /\ nws_alerts' = get_nws_alerts(alert_svc, <<>>)
    /\ UNCHANGED <<latitude, longitude, county, feeds, alert_svc, docs,
                   prims, cones, geometries, adv_i, storm_i, assessed,
                   storm_threats, highest_threat, is_in_any_cone, result>>

FetchOutlook ==
    /\ pc = "outlook"
    /\ calls' = Append(calls, "MIATWOAT")
    /\ nhc_alerts' = nhc_alerts \o outlook_alerts(docs.outlook)
    /\ adv_i' = 1
    /\ pc' = "advisory"
    /\ UNCHANGED <<latitude, longitude, county, feeds, alert_svc, docs,
                   prims, cones, geometries, nws_alerts, storm_i, assessed,
                   storm_threats, highest_threat, is_in_any_cone, result>>

\* (a slip: a document that fails takes the alerts of the earlier ones
\* with it)
check_advisory_resets_on_failure(alerts, doc, lat, lon) ==
    IF doc.raises \/ doc.status_code # 200 THEN <<>>
    ELSE alerts \o advisory_alerts(doc, lat, lon)

\* one pass of `for advisory_url in storm_advisories` with its own
\* try/except: the alerts of the document are appended to `alerts`
check_advisory(alerts, doc, lat, lon) ==
    alerts \o advisory_alerts(doc, lat, lon)

FetchAdvisory ==
    /\ pc = "advisory"
    /\ calls' = Append(calls, storm_advisories[adv_i])
    /\ nhc_alerts' = check_advisory(nhc_alerts, docs.advisories[adv_i],
                                    latitude, longitude)
    /\ IF adv_i < Len(storm_advisories)
       THEN /\ adv_i' = adv_i + 1
            /\ UNCHANGED <<pc, nws_alerts>>
       ELSE /\ nws_alerts' = get_nws_alerts(alert_svc, nhc_alerts')
            /\ pc' = "analyze"
            /\ UNCHANGED adv_i
    /\ UNCHANGED <<latitude, longitude, county, feeds, alert_svc, docs,
                   prims, cones, geometries, storm_i, assessed,
                   storm_threats, highest_threat, is_in_any_cone, result>>

\* (a slip: the assessment is inserted at the front)
collect_threat_in_front(threats, threat) == <<threat>> \o threats

\* storm_threats.append(threat)
collect_threat(threats, threat) == Append(threats, threat)

\* one iteration of `for cone, geometry in zip(cones, geometries)`
AnalyzeStorm ==
    /\ pc = "analyze"
    /\ storm_i <= zip_len
    /\ LET cone     == cones[storm_i]
           geometry == geometries[storm_i]
       IN  IF analyze_storm_threat_raises(cone, geometry, latitude,
                                          longitude, county, prims)
           THEN /\ pc' = "raised"
                /\ UNCHANGED <<storm_i, assessed, storm_threats,
                               highest_threat, is_in_any_cone>>
           ELSE \E threat \in {analyze_storm_threat(cone, geometry, latitude,
                                                    longitude, county,
                                                    nws_alerts, prims)} :
                    /\ assessed' = Append(assessed, threat)
                    /\ storm_i' = storm_i + 1
                    /\ pc' = pc
                    /\ IF threat.in_cone
                       THEN /\ is_in_any_cone' = TRUE
                            /\ storm_threats' =
                                 collect_threat(storm_threats, threat)
                            /\ highest_threat' =
                                 IF threat.threat_level > highest_threat
                                 THEN threat.threat_level
                                 ELSE highest_threat
                       ELSE UNCHANGED <<is_in_any_cone, storm_threats,
                                        highest_threat>>
    /\ UNCHANGED <<latitude, longitude, county, feeds, alert_svc, docs,
                   prims, cones, geometries, nws_alerts, nhc_alerts, adv_i,
                   calls, result>>

\* the override step and the return
Return ==
    /\ pc = "analyze"
    /\ storm_i > zip_len
    /\ highest_threat' =
         IF nws_alerts # <<>>
         THEN apply_nws_overrides(highest_threat, nws_alerts)
         ELSE highest_threat
    /\ result' = [alert_level |-> highest_threat',
                  storm_threats |-> storm_threats,
                  is_in_any_cone |-> is_in_any_cone,
                  nws_alerts |-> nws_alerts,
                  total_storms_analyzed |-> Len(cones)]
    /\ pc' = "done"
    /\ UNCHANGED <<latitude, longitude, county, feeds, alert_svc, docs,
                   prims, cones, geometries, nws_alerts, nhc_alerts, adv_i,
                   storm_i, assessed, storm_threats, is_in_any_cone, calls>>

----------------------------------------------------------------------------
(* The values the collaborators deliver in the checked runs.               *)

ConeSmall == Geometry(20, {NassauPt, ExumaPt}, NearPos)
ConeSouth == Geometry(20, {ExumaPt, CornerSW}, NearPos)
ConeLarge ==
    Geometry(80, {NassauPt, ExumaPt, EastPt, CornerNE, CornerSW}, NearPos)
ConeAway  == Geometry(20, {}, FarPos)
ConeEdge  == Geometry(20, {}, EdgeOut)
ConeBad   == Geometry(20, {NassauPt}, <<>>)

Imelda ==
    NHCCone("AL09", "Imelda", "Hurricane", ConeSmall, NearPos, "5",
            "NW at 10 mph", 120)
Humberto ==
    NHCCone("AL08", "Humberto", "Hurricane", ConeLarge, EdgeIn, "12",
            "N at 12 kph", 90)
InvestBig ==
    NHCCone("", "Invest", "Disturbance", ConeLarge, <<>>, "", "", 0)
InvestSmall ==
    NHCCone("", "Invest", "Disturbance", ConeSmall, <<>>, "", "", 0)
Numbered ==
    NHCCone("AL93", "", "", ConeLarge, <<>>, "", "", 0)
UnknownSmall ==
    NHCCone("EP01", "Unknown", "", ConeSmall, <<>>, "Unknown", "", 0)
UnknownBig ==
    NHCCone("EP02", "unknown", "Low", ConeLarge, NearPos, "", "", 0)
Karen ==
    NHCCone("AL11", "Karen", "Tropical Depression", ConeSouth,
            <<245, -765, 0>>, "1", "", 30)
Lorenzo ==
    NHCCone("AL12", "Lorenzo", "Tropical Storm", NoGeometry, NearPos, "2",
            "W at 5 knots", 45)
Melissa ==
    NHCCone("AL13", "Melissa", "Hurricane", ConeAway, FarPos, "7", "", 100)

NwsWatch ==
    Alert("Tropical Storm Watch", "Tropical Storm Watch for Imelda",
          "Moderate", "Expected", "NWS")
NwsWarning ==
    Alert("Tropical Storm Warning", "Tropical Storm Warning issued",
          "Moderate", "Immediate", "NWS")
NwsHurricane ==
    Alert("HURRICANE WARNING", "Hurricane Humberto approaches", "Extreme",
          "Immediate", "NWS")
NwsFlood ==
    Alert("Flood Warning", "Flooding from Jerry", "Minor", "Expected", "NWS")

Doc(raises, code, text) ==
    [raises |-> raises, status_code |-> code, text |-> text]

DocRaises == Doc(TRUE, 0, <<>>)
Doc404 == Doc(FALSE, 404, <<"Tropical Storm Watch for the Bahamas">>)

OutlookQuiet ==
    Doc(FALSE, 200, <<"Tropical cyclone formation is not expected">>)
OutlookWatch ==
    Doc(FALSE, 200, <<"Tropical Storm Watch possible", "for the Bahamas">>)
OutlookHurricane ==
    Doc(FALSE, 200, <<"Hurricane Warning for Nassau", "Hurricane Watch">>)

AdvImelda ==
    Doc(FALSE, 200,
        <<"Tropical Storm Imelda Advisory",
          "A Tropical Storm Warning is in effect for",
          "  * Central Bahamas",
          "A Tropical Storm Watch is in effect for",
          "  * Northwestern Bahamas">>)
AdvHumberto ==
    Doc(FALSE, 200,
        <<"Hurricane Humberto Advisory",
          "A Hurricane Watch is in effect for",
          "  * Nassau">>)
AdvOutside ==
    Doc(FALSE, 200,
        <<"Exuma and New Providence in the Bahamas should monitor",
          "A Tropical Storm Watch is in effect for",
          "  * Florida">>)
AdvUnrelated ==
    Doc(FALSE, 200, <<"Tropical Storm Jerry Advisory", "Tropical Storm Watch">>)

CountyOff == [use |-> FALSE, path |-> "", polygon |-> {}]
CountyNoPath == [use |-> TRUE, path |-> "", polygon |-> {}]
CountyOn ==
    [use |-> TRUE, path |-> "county.geojson",
     polygon |-> {NassauPt, CornerSW}]

Prims(loader, poly, point) ==
    [loader_raises |-> loader, poly_raises |-> poly, point_raises |-> point]

\* the geometry collaborators all work
PrimsWork == Prims(FALSE, FALSE, FALSE)

\* county arguments together with the failing geometry collaborators
GeoEnvs ==
    {<<CountyOff, PrimsWork>>,
     <<CountyOn, PrimsWork>>,
     <<CountyOn, Prims(TRUE, FALSE, FALSE)>>,
     <<CountyOn, Prims(FALSE, TRUE, TRUE)>>}

CallGeoEnvs ==
    {<<CountyOff, PrimsWork>>,
     <<CountyNoPath, Prims(FALSE, FALSE, TRUE)>>,
     <<CountyOn, Prims(FALSE, TRUE, FALSE)>>}

AllDocsFail ==
    [outlook |-> DocRaises, advisories |-> [i \in 1..5 |-> DocRaises]]

----------------------------------------------------------------------------
(* Specifications.                                                         *)

\* the state at the head of analyze_location_threat
Fresh ==
    /\ cones = <<>>
    /\ geometries = <<>>
    /\ nws_alerts = <<>>
    /\ nhc_alerts = <<>>
    /\ adv_i = 1
    /\ storm_i = 1
    /\ assessed = <<>>
    /\ storm_threats = <<>>
    /\ highest_threat = initial_threat
    /\ is_in_any_cone = FALSE
    /\ calls = <<>>
    /\ result = NoResult

\* the whole call
FeedChoicesA == {Raises, Returns(<<>>), Returns(<<Imelda>>),
                 Returns(<<Humberto>>)}
FeedChoicesB == {Raises, Returns(<<>>), Returns(<<Lorenzo>>),
                 Returns(<<Karen>>)}
FeedChoicesC == {Raises, Returns(<<>>), Returns(<<<<"AL93", NearPos>>>>)}
FeedChoicesD == {Raises, Returns(<<>>), Returns(<<InvestBig>>),
                 Returns(<<Melissa>>),
                 Returns(<<[Imelda EXCEPT !.storm_type = "Tropical Storm",
                                          !.max_winds = Knots(60)]>>)}
AlertChoices == {Raises, Returns(<<>>), Returns(<<NwsWatch>>),
                 Returns(<<NwsFlood, NwsHurricane>>)}
DocChoices ==
    {AllDocsFail,
     [outlook |-> OutlookHurricane,
      advisories |-> [i \in 1..5 |-> IF i = 1 THEN AdvImelda ELSE Doc404]]}

Init ==
    /\ pc = "feedA"
    /\ \E t \in {NassauPt, NorthPt} : latitude = t[1] /\ longitude = t[2]
    /\ \E g \in CallGeoEnvs : county = g[1] /\ prims = g[2]
    /\ feeds \in [A : FeedChoicesA, B : FeedChoicesB, C : FeedChoicesC,
                  D : FeedChoicesD]
    /\ alert_svc \in AlertChoices
    /\ docs \in DocChoices
    /\ Fresh

Next ==
    \/ FeedA
    \/ FeedB
    \/ FeedC
    \/ FeedD
    \/ Filter
    \/ AlertService
    \/ FetchOutlook
    \/ FetchAdvisory
    \/ AnalyzeStorm
    \/ Return

Spec == Init /\ [][Next]_vars

----------------------------------------------------------------------------
(* Source aggregation on its own: _get_enhanced_storm_data.                *)

MaxFeedLen == 2
MaxAtcf == 2

Nine ==
    NHCCone("AL09", "Nine", "Potential Tropical Cyclone", NoGeometry,
            NearPos, "4", "", 35)
InvestNamed ==
    NHCCone("", "Invest AL93", "Disturbance", ConeSmall, <<>>, "", "", 0)
Nameless ==
    NHCCone("", "", "Low", NoGeometry, EdgeIn, "", "", 0)
MapImelda ==
    NHCCone("AL09", "IMELDA", "Tropical Storm", ConeLarge, <<>>, "5A", "", 60)
MapInvest ==
    NHCCone("AL94", "Disturbance 1", "", ConeLarge, <<>>, "", "", 0)

AggConesA == {Imelda, InvestNamed, Numbered}
AggConesB == {Nine, Nameless}
AggConesD == {MapImelda, MapInvest}
AtcfItems == {<<"AL93", NearPos>>, <<"AL94", EdgeIn>>}

\* a feed raises, or returns a list of at most MaxFeedLen cones
ConeFeed(S) == {Raises} \cup {Returns(x) : x \in SeqsUpTo(S, MaxFeedLen)}

\* a dict has one entry per key
AtcfFeed ==
    {Raises} \cup
    {Returns(x) : x \in {y \in SeqsUpTo(AtcfItems, MaxAtcf) :
                           \A i, j \in DOMAIN y : i # j => y[i][1] # y[j][1]}}

InitAgg ==
    /\ pc = "feedA"
    /\ latitude = NassauPt[1]
    /\ longitude = NassauPt[2]
    /\ county = CountyOff
    /\ prims = PrimsWork
    /\ feeds \in [A : ConeFeed(AggConesA), B : ConeFeed(AggConesB),
                  C : AtcfFeed, D : ConeFeed(AggConesD)]
    /\ alert_svc = Raises
    /\ docs = AllDocsFail
    /\ Fresh

NextAgg ==
    \/ FeedA
    \/ FeedB
    \/ FeedC
    \/ FeedD

SpecAgg == InitAgg /\ [][NextAgg]_vars

----------------------------------------------------------------------------
(* The relevance filter on its own: _filter_storms_by_distance.            *)

MaxFilterLen == 2

FilterCones ==
    {Imelda,                                      \* position, near
     Humberto,                                    \* position, under 2000 km
     [Humberto EXCEPT !.current_position = EdgeOut],
     Melissa,                                     \* position, far
     InvestSmall,                                 \* centroid near
     [InvestSmall EXCEPT !.geometry = ConeEdge],  \* centroid over 2000 km
     [InvestSmall EXCEPT !.geometry = ConeBad],   \* centroid raises
     Nameless,                                    \* position, no geometry
     [Nameless EXCEPT !.current_position = <<>>], \* neither
     [Karen EXCEPT !.geometry = ConeAway]}        \* position not a pair

InitFilter ==
    /\ pc = "filter"
    /\ \E t \in {NassauPt, ExumaPt, EastPt} :
          latitude = t[1] /\ longitude = t[2]
    /\ county = CountyOff
    /\ prims = PrimsWork
    /\ cones \in SeqsUpTo(FilterCones, MaxFilterLen)
    /\ feeds = [A |-> Returns(cones), B |-> Raises, C |-> Raises,
                D |-> Raises]
    /\ alert_svc = Raises
    /\ docs = AllDocsFail
    /\ geometries = extract_geometries(cones)
    /\ nws_alerts = <<>>
    /\ nhc_alerts = <<>>
    /\ adv_i = 1
    /\ storm_i = 1
    /\ assessed = <<>>
    /\ storm_threats = <<>>
    /\ highest_threat = initial_threat
    /\ is_in_any_cone = FALSE
    /\ calls = <<"get_all_active_storm_cones",
                 "get_current_storms_with_positions",
                 "get_atcf_invest_positions", "get_active_cones">>
    /\ result = NoResult

NextFilter == Filter

SpecFilter == InitFilter /\ [][NextFilter]_vars

----------------------------------------------------------------------------
(* Alert fetching on its own: _get_nws_alerts.                             *)

OutlookDocs ==
    {DocRaises, Doc404, OutlookQuiet, OutlookWatch, OutlookHurricane}
\* place names inside a section, in a text that names neither the Bahamas
\* nor Nassau
AdvPlacesOnly ==
    Doc(FALSE, 200,
        <<"Tropical Storm Karen Advisory",
          "A Tropical Storm Watch is in effect for",
          "  * Exuma and New Providence">>)

\* place names after the section has been closed
AdvClosed ==
    Doc(FALSE, 200,
        <<"Tropical Storm Karen Advisory",
          "A Tropical Storm Watch is in effect for",
          "  * Florida Keys",
          "A Hurricane Warning is in effect for",
          "  * Exuma and New Providence in the Bahamas">>)

\* place names in a watch section and again in a warning section
AdvBoth ==
    Doc(FALSE, 200,
        <<"Tropical Storm Karen Advisory",
          "A Tropical Storm Watch is in effect for",
          "  * Central Bahamas and Northwestern Bahamas",
          "A Tropical Storm Warning is in effect for",
          "  * Exuma and New Providence">>)

FirstAdvisoryDocs ==
    {DocRaises, Doc404, AdvImelda, AdvHumberto, AdvOutside, AdvUnrelated,
     AdvPlacesOnly, AdvClosed, AdvBoth}

\* in the northwestern sub-box only
NewProvidencePt == <<251, -773>>

AlertTargets == Targets \cup {NewProvidencePt}
SecondAdvisoryDocs == {DocRaises, AdvImelda, AdvHumberto}
OtherAdvisoryDocs == {DocRaises, Doc404}

InitAlerts ==
    /\ pc = "alerts"
    /\ \E t \in AlertTargets : latitude = t[1] /\ longitude = t[2]
    /\ county = CountyOff
    /\ prims = PrimsWork
    /\ feeds = [A |-> Raises, B |-> Raises, C |-> Raises, D |-> Raises]
    /\ alert_svc \in {Raises, Returns(<<>>), Returns(<<NwsWarning>>)}
    /\ \E o \in OutlookDocs, a1 \in FirstAdvisoryDocs,
          a2 \in SecondAdvisoryDocs, a3 \in OtherAdvisoryDocs,
          a5 \in OtherAdvisoryDocs :
          docs = [outlook |-> o, advisories |-> <<a1, a2, a3, Doc404, a5>>]
    /\ Fresh

NextAlerts ==
    \/ AlertService
    \/ FetchOutlook
    \/ FetchAdvisory

SpecAlerts == InitAlerts /\ [][NextAlerts]_vars

----------------------------------------------------------------------------
(* The analysis loop and the return on their own.                          *)

MaxStorms == 2
MaxAlerts == 2

AnalyzeCones == {Imelda, Humberto, InvestSmall, UnknownSmall}

AnalyzeGeoEnvs ==
    {<<CountyOff, PrimsWork>>,
     <<CountyOn, PrimsWork>>,
     <<CountyOn, Prims(FALSE, TRUE, TRUE)>>}

\* the state after the alerts are fetched, the cones within the radius
AtLoopHead ==
    /\ pc = "analyze"
    /\ feeds = [A |-> Returns(cones), B |-> Raises, C |-> Raises,
                D |-> Raises]
    /\ alert_svc = Returns(nws_alerts)
    /\ docs = AllDocsFail
    /\ cones = filter_storms_by_distance(cones, latitude, longitude,
                                         RelevanceRadiusKm)
    /\ geometries = truthy_geometries(cones)
    /\ nhc_alerts = <<>>
    /\ adv_i = 1
    /\ storm_i = 1
    /\ assessed = <<>>
    /\ storm_threats = <<>>
    /\ highest_threat = initial_threat
    /\ is_in_any_cone = FALSE
    /\ calls = <<"get_all_active_storm_cones",
                 "get_current_storms_with_positions",
                 "get_atcf_invest_positions", "get_active_cones",
                 "get_hurricane_alerts">>
    /\ result = NoResult

InitAnalyze ==
    /\ latitude = NassauPt[1]
    /\ longitude = NassauPt[2]
    /\ \E g \in AnalyzeGeoEnvs : county = g[1] /\ prims = g[2]
    /\ cones \in SeqsUpTo(AnalyzeCones, MaxStorms)
    /\ nws_alerts \in SeqsUpTo({NwsWatch, NwsWarning, NwsHurricane,
                                NwsFlood}, MaxAlerts)
    /\ AtLoopHead

NextAnalyze ==
    \/ AnalyzeStorm
    \/ Return

SpecAnalyze == InitAnalyze /\ [][NextAnalyze]_vars

----------------------------------------------------------------------------
(* The intersection test on pairs of cones: _check_precise_intersection.   *)

TypedOnly ==
    NHCCone("", "", "Tropical Storm", ConeLarge, <<>>, "", "", 0)
CycloneTwo ==
    NHCCone("", "Cyclone Two", "", ConeLarge, <<>>, "", "", 0)

IntersectCones ==
    {Imelda, Humberto, TypedOnly, CycloneTwo, InvestBig, InvestSmall,
     Numbered, UnknownBig}

InitIntersect ==
    /\ \E t \in {NassauPt, EastPt} : latitude = t[1] /\ longitude = t[2]
    /\ \E g \in GeoEnvs : county = g[1] /\ prims = g[2]
    /\ cones \in {<<a, b>> : a, b \in IntersectCones}
    /\ nws_alerts = <<>>
    /\ AtLoopHead

NextIntersect ==
    \/ AnalyzeStorm
    \/ Return

SpecIntersect == InitIntersect /\ [][NextIntersect]_vars

----------------------------------------------------------------------------
(* One storm at a time: _categorize_storm and _calculate_confidence on a   *)
(* grid of types, winds, names, identifiers, advisories and positions.     *)

StormTypes ==
    {"", "HURRICANE", "Tropical Storm", "Winter Storm",
     "Tropical Depression", "Disturbance", "Development"}
StormWinds ==
    {Knots(0), Knots(1), Knots(38), Knots(39), Knots(73), Knots(74),
     Knots(110), Knots(111), KnotsText(""), KnotsText("111"),
     KnotsText(" 80 "), KnotsText("n/a"), KnotsText("-5")}
StormNames == {"", "Invest91L", "Development Area", "Unknown", "Imelda"}
StormIds == {"", "AL09", "EP12"}
StormAdvisories == {"", "Unknown", "5"}
StormPositions == {<<>>, NearPos}

InitStorm ==
    /\ latitude = NassauPt[1]
    /\ longitude = NassauPt[2]
    /\ county = CountyOff
    /\ prims = PrimsWork
    /\ \E type \in StormTypes, winds \in StormWinds, name \in StormNames,
          id \in StormIds, adv \in StormAdvisories, pos \in StormPositions :
          cones = <<[NHCCone(id, name, type, ConeSmall, pos, adv, "", 0)
                        EXCEPT !.max_winds = winds]>>
    /\ nws_alerts = <<>>
    /\ AtLoopHead

NextStorm ==
    \/ AnalyzeStorm
    \/ Return

SpecStorm == InitStorm /\ [][NextStorm]_vars

----------------------------------------------------------------------------
(* One storm at a time: _estimate_arrival_time on a grid of movement texts *)
(* and positions.                                                          *)

ArrivalMovements ==
    {"", "stationary", "NW at 10 mph", "W at 20 km/h", "N at 12 kph",
     "W at 5 knots", "NNE 12MPH", "drifting at 0 mph",
     "W at 20 kph (12 mph)", "N at 1.5 mph", "near 8 kt"}
ArrivalPositions == {<<>>, NassauPt, NearPos, EdgeIn, FarPos}
ArrivalGeometries == {ConeSmall, ConeAway}

InitArrival ==
    /\ latitude = NassauPt[1]
    /\ longitude = NassauPt[2]
    /\ county = CountyOff
    /\ prims = PrimsWork
    /\ \E mov \in ArrivalMovements, pos \in ArrivalPositions,
          geom \in ArrivalGeometries :
          cones = <<NHCCone("AL09", "Imelda", "Hurricane", geom, pos, "5",
                            mov, 80)>>
    /\ nws_alerts = <<>>
    /\ AtLoopHead

NextArrival ==
    \/ AnalyzeStorm
    \/ Return

SpecArrival == InitArrival /\ [][NextArrival]_vars

----------------------------------------------------------------------------
(* One storm of each category, inside or outside its cone, under lists of  *)
(* official alerts: _determine_threat_level.                               *)

NwsHurricaneWatch ==
    Alert("Hurricane Watch", "Hurricane Watch issued", "Severe", "Expected",
          "NWS")

LevelAlerts == {NwsWatch, NwsWarning, NwsHurricane, NwsHurricaneWatch,
                NwsFlood}

\* type, name, wind: one cone per StormCategory
LevelStorms ==
    {<<"Hurricane", "Imelda", 120>>, <<"Hurricane", "Humberto", 90>>,
     <<"Tropical Storm", "Jerry", 50>>, <<"Tropical Depression", "Ten", 30>>,
     <<"Disturbance", "Invest 93L", 0>>, <<"", "Development Area", 0>>,
     <<"", "", 0>>}

InitLevel ==
    /\ latitude = NassauPt[1]
    /\ longitude = NassauPt[2]
    /\ county = CountyOff
    /\ prims = PrimsWork
    /\ \E st \in LevelStorms, geom \in {ConeSmall, ConeSouth} :
          cones = <<NHCCone("", st[2], st[1], geom, NearPos, "5", "", st[3])>>
    /\ nws_alerts \in SeqsUpTo(LevelAlerts, MaxAlerts)
    /\ AtLoopHead

NextLevel ==
    \/ AnalyzeStorm
    \/ Return

SpecLevel == InitLevel /\ [][NextLevel]_vars

----------------------------------------------------------------------------
(* Properties of the whole call (Spec).                                    *)

AllSourcesFail ==
    /\ ~feeds.A.ok /\ ~feeds.B.ok /\ ~feeds.C.ok /\ ~feeds.D.ok
    /\ ~alert_svc.ok

\* C1: when the four cone feeds and the alert sources all raise, the call
\* does not raise and returns ALL_CLEAR, no storm threats, is_in_any_cone
\* false, no alerts and zero storms analyzed.
C1_AllFailGivesAllClear ==
    AllSourcesFail =>
        /\ pc # "raised"
        /\ pc = "done" =>
             result = [alert_level |-> ALL_CLEAR,
                       storm_threats |-> <<>>,
                       is_in_any_cone |-> FALSE,
                       nws_alerts |-> <<>>,
                       total_storms_analyzed |-> 0]

C1_Witness == AllSourcesFail /\ pc = "done" /\ Len(calls) = 5

\* C2: no exception propagates to the caller of analyze_location_threat,
\* whatever cones the feeds deliver (positions absent or not a pair
\* included) and whichever collaborators fail.
C2_NoExceptionPropagates == pc # "raised"

----------------------------------------------------------------------------
(* Properties of the analysis loop and the return (SpecAnalyze,            *)
(* SpecIntersect).                                                         *)

SetMax(S) == CHOOSE m \in S : \A x \in S : x <= m

InConeAssessed == {i \in DOMAIN assessed : assessed[i].in_cone}

MatchingAlerts ==
    {i \in DOMAIN nws_alerts : event_level(nws_alerts[i].event) # 0}

\* C3: the returned alert_level is the maximum of the threat levels of the
\* in-cone assessments (ALL_CLEAR when there are none) and of the levels
\* of the official alerts whose event matches a watch/warning phrase; the
\* override never returns less than the level it was given.
C3_LevelIsMaximum ==
    pc = "done" =>
        result.alert_level =
            SetMax({ALL_CLEAR}
                   \cup {assessed[i].threat_level : i \in InConeAssessed}
                   \cup {event_level(nws_alerts[i].event) :
                           i \in MatchingAlerts})

C3_Witness ==
    /\ pc = "done"
    /\ Cardinality(InConeAssessed) >= 2
    /\ nws_alerts # <<>>
    /\ result.alert_level > highest_nws_level(nws_alerts)
    /\ \E i \in InConeAssessed : assessed[i].threat_level < result.alert_level

\* the level of the same assessed storms had the alert list been empty
LevelWithoutAlerts ==
    SetMax({ALL_CLEAR}
           \cup {determine_threat_level(assessed[i].cone,
                                        assessed[i].category,
                                        assessed[i].in_cone, <<>>) :
                   i \in InConeAssessed})

\* C4: official alerts only ratchet the result upward: with any list of
\* alerts the returned alert_level is never lower than the one returned
\* for the same storms with an empty alert list.
C4_AlertsOnlyRaise ==
    pc = "done" => result.alert_level >= LevelWithoutAlerts

C10_named(cone) ==
    LET name == Lower(cone.storm_name)
        type == Lower(cone.storm_type)
        id   == Lower(cone.storm_id)
    IN  \/ \E phrase \in {"named storm", "hurricane", "tropical storm",
                          "potential tropical cyclone"} :
               Contains(type, phrase)
        \/ (name # "" /\ name \notin {"unknown", "invest"})
        \/ (HasDigit(id) /\ Contains(id, "al"))

\* what the intersection primitives answer for a geometry
C10_primitives(g) ==
    IF /\ county.use /\ county.path # ""
       /\ ~prims.loader_raises /\ ~prims.poly_raises
    THEN g.covers \cap county.polygon # {}
    ELSE <<latitude, longitude>> \in g.covers

\* C10: a geometry of more than 50 square degrees is reported as not
\* intersecting unless its cone is a named system (by type, by name, or by
\* an identifier with a digit and "al"); a geometry of at most 50 square
\* degrees, and a large one of a named system, gets the primitives' answer.
C10_AreaFilter ==
    \A i \in DOMAIN assessed :
        IF geometries[i].area > 50 /\ ~C10_named(cones[i])
        THEN ~assessed[i].in_cone
        ELSE assessed[i].in_cone = C10_primitives(geometries[i])

C10_Witness ==
    \E i, j \in DOMAIN assessed :
        /\ cones[i].storm_type = "Disturbance"
        /\ cones[i].storm_name = "Invest"
        /\ geometries[i].area > 50
        /\ <<latitude, longitude>> \in geometries[i].covers
        /\ ~assessed[i].in_cone
        /\ cones[j].storm_type = "Tropical Storm"
        /\ cones[j].storm_name = ""
        /\ geometries[j].area > 50
        /\ assessed[j].in_cone

----------------------------------------------------------------------------
(* Properties of the source aggregation (SpecAgg).                         *)

NoDuplicateIds(cs) ==
    \A i, j \in DOMAIN cs : i # j => cs[i].storm_id # cs[j].storm_id

\* C5: no two cones of the list the aggregation returns carry the same
\* identifier, whatever the four feeds deliver.
C5_Deduplicated == pc = "filter" => NoDuplicateIds(cones)

\* a feed's own list has pairwise distinct, non-empty identifiers
OwnIdsDistinct(r) ==
    r.ok => /\ NoDuplicateIds(r.val)
            /\ \A i \in DOMAIN r.val : r.val[i].storm_id # ""

\* C5 as amended: when each feed's own list carries pairwise distinct,
\* non-empty identifiers, no two cones of the returned list carry the same
\* identifier.
C5_DeduplicatedAcrossFeeds ==
    (/\ pc = "filter"
     /\ OwnIdsDistinct(feeds.A)
     /\ OwnIdsDistinct(feeds.B)
     /\ OwnIdsDistinct(feeds.D)
     /\ \A i \in DOMAIN feeds.C.val : feeds.C.val[i][1] # "")
        => NoDuplicateIds(cones)

C5_Witness ==
    /\ pc = "filter"
    /\ OwnIdsDistinct(feeds.A) /\ OwnIdsDistinct(feeds.B)
    /\ OwnIdsDistinct(feeds.D)
    /\ \E i \in DOMAIN feeds.A.val, j \in DOMAIN feeds.B.val,
          k \in DOMAIN feeds.D.val :
          /\ feeds.A.val[i].storm_id = feeds.B.val[j].storm_id
          /\ feeds.A.val[i].storm_id = feeds.D.val[k].storm_id
    /\ Len(cones) >= 3

\* a feed that raised, replaced by one that returned nothing
AsEmpty(r) == IF r.ok THEN r ELSE Returns(<<>>)

SomeFeedRaised == ~feeds.A.ok \/ ~feeds.B.ok \/ ~feeds.C.ok \/ ~feeds.D.ok

\* C6: when feed calls raise, aggregation returns exactly the list it
\* returns when those feeds deliver empty results, with every cone of the
\* feeds that succeeded.
C6_RaisedFeedIsEmptyFeed ==
    pc = "filter" =>
        cones = get_enhanced_storm_data([A |-> AsEmpty(feeds.A),
                                         B |-> AsEmpty(feeds.B),
                                         C |-> AsEmpty(feeds.C),
                                         D |-> AsEmpty(feeds.D)])

C6_Witness ==
    /\ pc = "filter"
    /\ ~feeds.D.ok /\ ~feeds.B.ok
    /\ feeds.A.ok /\ Len(feeds.A.val) = 2
    /\ feeds.C.ok /\ feeds.C.val # <<>>
    /\ Len(cones) > Len(feeds.A.val)

----------------------------------------------------------------------------
(* Properties of the relevance filter (SpecFilter).                        *)

\* the elements of cs at the indices I, in order
Restrict(cs, I) ==
    LET nth(k) == CHOOSE i \in I : Cardinality({j \in I : j < i}) = k - 1
    IN  [k \in 1..Cardinality(I) |-> cs[nth(k)]]

C7_within(lat, lon) ==
    haversine_distance(latitude, longitude, lat, lon)
        <= RelevanceRadiusKm * 1000

\* the cones the claim speaks of: a latitude/longitude pair as position,
\* or no position and either a geometry with a centroid or no geometry
C7_covered(c) ==
    \/ Len(c.current_position) = 2
    \/ /\ c.current_position = <<>>
       /\ (c.geometry.present => c.geometry.centroid # <<>>)

C7_keep(c) ==
    IF Len(c.current_position) = 2
    THEN C7_within(c.current_position[1], c.current_position[2])
    ELSE IF c.geometry.present
    THEN C7_within(c.geometry.centroid[1], c.geometry.centroid[2])
    ELSE TRUE

\* C7: the filter returns a sub-sequence of its input in the original
\* order; a cone with a position is kept iff the position is within the
\* radius, one without position but with geometry iff the centroid is,
\* and one with neither is always kept.
C7_FilterKeepsRelevant ==
    pc = "alerts" =>
        \E I \in SUBSET DOMAIN feeds.A.val :
            /\ cones = Restrict(feeds.A.val, I)
            /\ \A i \in DOMAIN feeds.A.val :
                  C7_covered(feeds.A.val[i])
                     => (i \in I <=> C7_keep(feeds.A.val[i]))

C7_Witness ==
    /\ pc = "alerts"
    /\ Len(feeds.A.val) = 2
    /\ Len(cones) = 1
    /\ cones[1] = feeds.A.val[2]
    /\ cones[1].current_position = <<>>
    /\ ~cones[1].geometry.present
    /\ Len(feeds.A.val[1].current_position) = 2

----------------------------------------------------------------------------
(* Properties of the alert fetching (SpecAlerts).                          *)

\* C8: when the primary alerting service fails, its contribution is empty
\* and, for a target inside the region, the alerts synthesized by the
\* secondary source are still returned in nws_alerts.
C8_SecondarySurvivesPrimaryFailure ==
    (pc = "analyze" /\ ~alert_svc.ok
       /\ in_bahamas_region(latitude, longitude))
        => nws_alerts = get_nhc_alerts_for_location(docs, latitude, longitude)

OutsideRegion ==
    \/ latitude < 230 \/ latitude > 270
    \/ longitude < -800 \/ longitude > -720

DocumentNames == {"MIATWOAT"} \cup Range(storm_advisories)

\* C9: for a target outside latitude 23.0..27.0 or longitude -80.0..-72.0
\* no text document is fetched and the secondary source contributes no
\* alert.
C9_SecondaryIsRegionGated ==
    OutsideRegion =>
        /\ \A i \in DOMAIN calls : calls[i] \notin DocumentNames
        /\ nhc_alerts = <<>>
        /\ (pc = "analyze" /\ alert_svc.ok) => nws_alerts = alert_svc.val

C9_Witness ==
    /\ latitude = 300 /\ longitude = -800
    /\ pc = "analyze"
    /\ alert_svc.ok /\ alert_svc.val # <<>>
    /\ docs.outlook = OutlookHurricane
    /\ calls = <<"get_hurricane_alerts">>

----------------------------------------------------------------------------
(* Properties of one storm's assessment (SpecStorm).                       *)

\* the first category, in the order given, whose test holds
C11_first(rules) ==
    rules[CHOOSE i \in DOMAIN rules :
              rules[i][2] /\ \A j \in 1..(i - 1) : ~rules[j][2]][1]

C11_category(cone) ==
    LET type  == Lower(cone.storm_type)
        name  == Lower(cone.storm_name)
        wind  == coerce_max_winds(cone.max_winds)
        hurricane == Contains(type, "hurricane") \/ wind >= 74
    IN  C11_first(<<
          <<"major_hurricane", hurricane /\ wind >= 111>>,
          <<"minor_hurricane", hurricane>>,
          <<"tropical_storm",
            Contains(type, "tropical storm") \/ Contains(type, "storm")
              \/ (39 <= wind /\ wind < 74)>>,
          <<"tropical_depression",
            Contains(type, "depression") \/ (0 < wind /\ wind < 39)>>,
          <<"invest_disturbance",
            Contains(name, "invest") \/ Contains(type, "disturbance")
              \/ Contains(type, "development")
              \/ Contains(cone.storm_id, "9")>>,
          <<"development_area",
            Contains(name, "development") \/ Contains(name, "area")>>,
          <<"unknown", TRUE>> >>)

C11_examples(t) ==
    /\ (Lower(t.cone.storm_type) = "hurricane"
           /\ t.cone.max_winds = Knots(111))
          => t.category = "major_hurricane"
    /\ (Lower(t.cone.storm_type) = "hurricane"
           /\ t.cone.max_winds = Knots(110))
          => t.category = "minor_hurricane"
    /\ (t.cone.storm_type = "" /\ t.cone.max_winds = Knots(0)
           /\ t.cone.storm_name = "Invest91L"
           /\ ~HasDigit(t.cone.storm_id))
          => t.category = "invest_disturbance"

\* C11: every assessment carries a category, and it is the first one in the
\* order major/minor hurricane, tropical storm, tropical depression,
\* invest/disturbance, development area, unknown whose test the cone
\* passes; type "hurricane" with wind 111 is a major hurricane, with wind
\* 110 a minor one, and the nameless-type cone "Invest91L" without digits
\* in its identifier is an invest/disturbance.
C11_CategorizationFirstMatch ==
    \A i \in DOMAIN assessed :
        /\ assessed[i].category = C11_category(assessed[i].cone)
        /\ C11_examples(assessed[i])

\* a wind of hurricane force on a cone typed as a depression: the earlier
\* hurricane test wins
C11_Witness ==
    /\ pc = "done"
    /\ Len(assessed) = 1
    /\ assessed[1].cone.storm_type = "Tropical Depression"
    /\ assessed[1].cone.max_winds = KnotsText("111")
    /\ assessed[1].category = "major_hurricane"

C15_score(cone, category) ==
    LET named    == cone.storm_name # ""
                      /\ ~Contains(Lower(cone.storm_name), "unknown")
        advised  == cone.advisory_num # "" /\ cone.advisory_num # "Unknown"
        located  == cone.current_position # <<>>
        defined  == category \in {"major_hurricane", "minor_hurricane",
                                  "tropical_storm"}
        sum      == 5 + (IF named THEN 2 ELSE 0) + (IF advised THEN 1 ELSE 0)
                      + (IF located THEN 1 ELSE 0)
                      + (IF defined THEN 1 ELSE 0)
    IN  Min2(10, sum)

\* C15: every confidence score lies in [0.0, 1.0] (0..10 tenths) and is 0.5
\* plus 0.2 for a name that is present and not unknown, 0.1 for an advisory
\* identifier that is present and not "Unknown", 0.1 for a position and 0.1
\* for a major/minor hurricane or tropical storm, capped at 1.0.
C15_ConfidenceInUnitInterval ==
    \A i \in DOMAIN assessed :
        /\ assessed[i].confidence \in 0..10
        /\ assessed[i].confidence
             = C15_score(assessed[i].cone, assessed[i].category)

\* every bonus applies: the score reaches the cap
C15_Witness ==
    /\ pc = "done"
    /\ Len(assessed) = 1
    /\ assessed[1].cone.storm_name = "Imelda"
    /\ assessed[1].cone.advisory_num = "5"
    /\ assessed[1].cone.current_position = NearPos
    /\ assessed[1].category = "tropical_storm"
    /\ assessed[1].confidence = 10

----------------------------------------------------------------------------
(* Properties of one storm's threat level (SpecLevel).                     *)

\* the level an official alert stands for, 0 when its event names no
\* watch or warning
C12_level(alert) ==
    LET e == Lower(alert.event)
    IN  CASE Contains(e, "hurricane warning") -> HURRICANE_WARNING
          [] ~Contains(e, "hurricane warning")
               /\ (Contains(e, "hurricane watch")
                     \/ Contains(e, "tropical storm warning")) ->
                 TROPICAL_STORM_WARNING_HURRICANE_WATCH_EVACUATION
          [] ~Contains(e, "hurricane warning")
               /\ ~Contains(e, "hurricane watch")
               /\ ~Contains(e, "tropical storm warning")
               /\ Contains(e, "tropical storm watch") ->
                 TROPICAL_STORM_WATCH_HURRICANE_THREAT
          [] OTHER -> 0

C12_matching == {i \in DOMAIN nws_alerts : C12_level(nws_alerts[i]) # 0}

C12_first == CHOOSE i \in C12_matching : \A j \in C12_matching : i <= j

\* C12: for an in-cone storm, when some official alert matches a phrase the
\* storm's threat level is the level of the first matching alert in list
\* order, whatever the category and whatever alerts follow.
C12_FirstAlertDecides ==
    \A i \in DOMAIN assessed :
        (assessed[i].in_cone /\ C12_matching # {})
          => assessed[i].threat_level = C12_level(nws_alerts[C12_first])

\* a major hurricane in its cone, a watch listed before a hurricane warning
C12_Witness ==
    /\ pc = "done"
    /\ Len(assessed) = 1
    /\ assessed[1].in_cone
    /\ assessed[1].category = "major_hurricane"
    /\ nws_alerts = <<NwsWatch, NwsHurricane>>
    /\ assessed[1].threat_level = TROPICAL_STORM_WATCH_HURRICANE_THREAT

C13_table ==
    [major_hurricane |-> TROPICAL_STORM_WARNING_HURRICANE_WATCH_EVACUATION,
     minor_hurricane |-> TROPICAL_STORM_WATCH_HURRICANE_THREAT,
     tropical_storm |-> TROPICAL_STORM_THREAT,
     tropical_depression |-> TROPICAL_STORM_THREAT,
     invest_disturbance |-> TROPICAL_STORM_THREAT,
     development_area |-> ALL_CLEAR,
     unknown |-> ALL_CLEAR]

\* C13: for an in-cone storm with no matching official alert the threat
\* level is the category's entry of the table; a single in-cone cone of
\* type "Hurricane" with wind 120 and no official alerts returns the
\* watch/warning/evacuation tier.
C13_CategoryDecidesWithoutAlerts ==
    /\ \A i \in DOMAIN assessed :
          (assessed[i].in_cone /\ C12_matching = {})
            => assessed[i].threat_level = C13_table[assessed[i].category]
    /\ (/\ pc = "done"
        /\ Len(assessed) = 1
        /\ assessed[1].in_cone
        /\ assessed[1].cone.storm_type = "Hurricane"
        /\ assessed[1].cone.max_winds = Knots(120)
        /\ nws_alerts = <<>>)
          => result.alert_level
               = TROPICAL_STORM_WARNING_HURRICANE_WATCH_EVACUATION

C13_Witness ==
    /\ pc = "done"
    /\ Len(assessed) = 1
    /\ assessed[1].in_cone
    /\ assessed[1].cone.storm_type = "Hurricane"
    /\ assessed[1].cone.max_winds = Knots(120)
    /\ nws_alerts = <<>>
    /\ result.alert_level = TROPICAL_STORM_WARNING_HURRICANE_WATCH_EVACUATION

\* C14: an assessment whose in_cone flag is false has threat level
\* ALL_CLEAR, whatever its category and the official alerts.
C14_OutOfConeIsAllClear ==
    \A i \in DOMAIN assessed :
        ~assessed[i].in_cone => assessed[i].threat_level = ALL_CLEAR

\* a major hurricane whose cone misses the target, under a hurricane warning
C14_Witness ==
    /\ Len(assessed) = 1
    /\ ~assessed[1].in_cone
    /\ assessed[1].category = "major_hurricane"
    /\ nws_alerts = <<NwsHurricane>>
    /\ assessed[1].threat_level = ALL_CLEAR

----------------------------------------------------------------------------
(* Properties of the result's lists (SpecAnalyze, Spec).                   *)

C16_in_cone_only == SelectSeq(assessed, LAMBDA t : t.in_cone)

\* C16: the returned storm_threats are exactly the assessments whose
\* in_cone flag is true, in assessment order, and is_in_any_cone is true
\* iff storm_threats is non-empty.
C16_ResultConsistency ==
    /\ storm_threats = C16_in_cone_only
    /\ is_in_any_cone <=> (storm_threats # <<>>)
    /\ pc = "done"
         => /\ result.storm_threats = C16_in_cone_only
            /\ result.is_in_any_cone <=> (result.storm_threats # <<>>)

\* two storms assessed, both in their cones, of different levels
C16_Witness ==
    /\ pc = "done"
    /\ Len(assessed) = 2
    /\ Len(result.storm_threats) = 2
    /\ result.storm_threats[1].cone # result.storm_threats[2].cone
    /\ result.is_in_any_cone

\* C17: the cone list and the geometry list the loop iterates are parallel:
\* each cone is paired with its own geometry, and the number of storms
\* assessed is total_storms_analyzed, also when a cone has no geometry.
C17_ParallelLists ==
    /\ pc \in {"analyze", "done"}
         => /\ Len(geometries) = Len(cones)
            /\ \A i \in DOMAIN cones : geometries[i] = cones[i].geometry
    /\ pc = "done" => Len(assessed) = result.total_storms_analyzed

----------------------------------------------------------------------------
(* Properties of the merge order (SpecAgg).                                *)

\* a cone without its current position, the one field feed C may rewrite
C18_record(cone) == [cone EXCEPT !.current_position = <<>>]

\* a step keeps every record of the list where it is
C18_kept ==
    /\ Len(cones') >= Len(cones)
    /\ \A i \in DOMAIN cones : C18_record(cones'[i]) = C18_record(cones[i])

\* the indices a step appends at
C18_new == (Len(cones) + 1)..Len(cones')

C18_feed == IF pc = "feedB" THEN feeds.B.val ELSE feeds.D.val

\* in the returned list, the record of feed A stands for an identifier that
\* feed A shares with feed B or D
C18_first_feed_wins(ids) ==
    pc = "filter" =>
      \A a \in Range(feeds.A.val),
         x \in Range(feeds.B.val) \cup Range(feeds.D.val) :
          (a.storm_id = x.storm_id /\ a.storm_id \in ids)
            => /\ \E i \in DOMAIN cones : C18_record(cones[i]) = C18_record(a)
               /\ \A i \in DOMAIN cones :
                     C18_record(cones[i]) = C18_record(x)
                       => C18_record(x) = C18_record(a)

C18_all_ids ==
    {c.storm_id : c \in Range(feeds.A.val) \cup Range(feeds.B.val)
                          \cup Range(feeds.D.val)}

\* C18: feed B and feed D append an entry only if no cone already in the
\* merged list (at the moment it is appended) has its identifier, no step
\* replaces or removes a record of the list, and an identifier of feed A
\* that feed B or D has as well keeps feed A's record.  Entries without an
\* identifier are left out of the statement.
C18_MergePrecedence ==
    /\ [][/\ C18_kept
           /\ pc \in {"feedB", "feedD"}
                => \A k \in C18_new :
                     \/ cones'[k].storm_id = ""
                     \/ \A i \in 1..(k - 1) :
                           cones'[i].storm_id # cones'[k].storm_id]_vars
    /\ [](C18_first_feed_wins(C18_all_ids \ {""}))

\* C18 as amended: feed B and feed D append an entry only if it has no
\* identifier or no cone that was in the merged list before that feed was
\* merged has its identifier; no step replaces or removes a record of the
\* list; a non-empty identifier of feed A that feed B or D has as well
\* keeps feed A's record.
C18_MergePrecedenceOverEarlierFeeds ==
    /\ [][/\ C18_kept
           /\ pc \in {"feedB", "feedD"}
                => \A k \in C18_new :
                     /\ cones'[k] \in Range(C18_feed)
                     /\ \/ cones'[k].storm_id = ""
                        \/ \A i \in DOMAIN cones :
                              cones[i].storm_id # cones'[k].storm_id]_vars
    /\ [](C18_first_feed_wins(C18_all_ids \ {""}))

\* feeds A, B and D all carry "AL09": the list keeps feed A's record, and
\* feed B and feed D each added another one
C18_Witness ==
    /\ pc = "filter"
    /\ feeds.A = Returns(<<Imelda>>)
    /\ feeds.B = Returns(<<Nine, Nameless>>)
    /\ feeds.D = Returns(<<MapImelda, MapInvest>>)
    /\ C18_record(cones[1]) = C18_record(Imelda)
    /\ Len(cones) >= 3
    /\ \A i \in DOMAIN cones : cones[i].storm_id = "AL09" => i = 1

----------------------------------------------------------------------------
(* Properties of the position feed (SpecAgg).                              *)

\* the cone has that identifier or a name containing it, case-insensitive
C19_matches(cone, id) ==
    \/ cone.storm_id = id
    \/ Contains(Lower(cone.storm_name), Lower(id))

C19_matching(id) == {i \in DOMAIN cones : C19_matches(cones[i], id)}

C19_first(id) ==
    CHOOSE i \in C19_matching(id) : \A j \in C19_matching(id) : i <= j

\* cone i is not the first match of the identifier, nor a second
\* occurrence of the very same record (which may be the same object)
C19_other(i, id) ==
    C19_matching(id) # {} => cones[i] # cones[C19_first(id)]

C19_unmatched ==
    {j \in DOMAIN feeds.C.val : C19_matching(feeds.C.val[j][1]) = {}}

\* exactly one cone is appended for an entry no cone matches
C19_inserted(e) ==
    \E k \in C18_new :
        /\ cones'[k].storm_id = e[1]
        /\ cones'[k].current_position = e[2]
        /\ cones'[k].storm_type = "Tropical Disturbance"
        /\ cones'[k].advisory_num = "ATCF"
        /\ \A m \in C18_new : cones'[m].storm_id = e[1] => m = k

\* what the claim and its amendment share: the length of the list, the
\* appended cones, and the fields of the cones already there
C19_frame ==
    /\ Len(cones') = Len(cones) + Cardinality(C19_unmatched)
    /\ \A j \in C19_unmatched : C19_inserted(feeds.C.val[j])
    /\ C18_kept

----------------------------------------------------------------------------
(* Properties of the advisory scan (SpecAlerts).                           *)

C20_central == 230 <= latitude /\ latitude <= 250
                 /\ -770 <= longitude /\ longitude <= -750
C20_northwestern == 245 <= latitude /\ latitude <= 265
                      /\ -785 <= longitude /\ longitude <= -765

\* the advisory document a FetchAdvisory step reads, in lower case
C20_doc == docs.advisories[adv_i]
C20_lines == [k \in DOMAIN C20_doc.text |-> Lower(Strip(C20_doc.text[k]))]
C20_has(phrase) == \E k \in DOMAIN C20_lines : Contains(C20_lines[k], phrase)

\* it was fetched and names the Bahamas or Nassau
C20_read ==
    /\ ~C20_doc.raises
    /\ C20_doc.status_code = 200
    /\ C20_has("bahamas") \/ C20_has("nassau")

\* what a line does to the open section
C20_marker(k) ==
    IF Contains(C20_lines[k], "tropical storm watch is in effect for")
    THEN "watch"
    ELSE IF Contains(C20_lines[k], "tropical storm warning is in effect for")
    THEN "warning"
    ELSE IF /\ StartsWith(C20_lines[k], "a ")
            /\ \/ Contains(C20_lines[k], "watch")
               \/ Contains(C20_lines[k], "warning")
    THEN "close"
    ELSE "none"

\* the section open at line k: the last marker before it
C20_section(k) ==
    LET before == {m \in 1..(k - 1) : C20_marker(m) # "none"}
    IN  IF before = {} THEN "close"
        ELSE C20_marker(CHOOSE m \in before : \A n \in before : n <= m)

\* the lines that name one of the places inside an open section
C20_hits(places) ==
    {k \in DOMAIN C20_lines :
        /\ C20_marker(k) = "none"
        /\ C20_section(k) \in {"watch", "warning"}
        /\ \E pl \in places : Contains(C20_lines[k], pl)}

\* the tropical storm watch/warning events the line scan gives
C20_scan(places) ==
    IF C20_hits(places) = {} THEN <<>>
    ELSE LET k == CHOOSE h \in C20_hits(places) :
                      \A g \in C20_hits(places) : h <= g
         IN  IF C20_section(k) = "watch" THEN <<"Tropical Storm Watch">>
             ELSE <<"Tropical Storm Warning">>

\* the events the whole-document checks give
C20_whole ==
    (IF C20_has("tropical storm watch") /\ C20_has("bahamas")
     THEN <<"Tropical Storm Watch">> ELSE <<>>)
    \o (IF C20_has("tropical storm warning") /\ C20_has("bahamas")
        THEN <<"Tropical Storm Warning">> ELSE <<>>)

\* the tropical storm watch/warning events a FetchAdvisory step adds
C20_added ==
    LET new == SubSeq(nhc_alerts', Len(nhc_alerts) + 1, Len(nhc_alerts'))
        ts  == SelectSeq(new, LAMBDA a :
                   a.event \in {"Tropical Storm Watch",
                                "Tropical Storm Warning"})
    IN  [k \in DOMAIN ts |-> ts[k].event]

\* C20: from an advisory it has read, a target inside the central sub-box
\* gets a tropical storm watch/warning alert exactly when a central place
\* name stands inside an open watch/warning section, a target inside the
\* northwestern sub-box exactly when a northwestern place name does, and a
\* target outside both gets what the whole-document checks give.
C20_SubRegionScoping ==
    [][(pc = "advisory" /\ C20_read)
         => /\ C20_central
                 => C20_added = C20_scan({"central bahamas", "exuma"})
            /\ C20_northwestern
                 => C20_added = C20_scan({"northwestern bahamas",
                                          "new providence"})
            /\ (~C20_central /\ ~C20_northwestern)
                 => C20_added = C20_whole]_vars

\* C20 as amended: a target inside both sub-boxes is scanned for the
\* northwestern place names only; the central place names count for a
\* target inside the central sub-box and outside the northwestern one.  An
\* advisory that was not read adds nothing.
C20_SubRegionScopingNorthwesternFirst ==
    [][pc = "advisory"
         => /\ (C20_read /\ C20_northwestern)
                 => C20_added = C20_scan({"northwestern bahamas",
                                          "new providence"})
            /\ (C20_read /\ C20_central /\ ~C20_northwestern)
                 => C20_added = C20_scan({"central bahamas", "exuma"})
            /\ (C20_read /\ ~C20_central /\ ~C20_northwestern)
                 => C20_added = C20_whole
            /\ ~C20_read => nhc_alerts' = nhc_alerts]_vars

\* a target inside both sub-boxes, an advisory with a warning section that
\* names the central Bahamas and a watch section that names the
\* northwestern Bahamas: the watch is synthesized
C20_Witness ==
    /\ pc = "advisory"
    /\ adv_i = 2
    /\ latitude = NassauPt[1] /\ longitude = NassauPt[2]
    /\ docs.outlook = DocRaises
    /\ docs.advisories[1] = AdvImelda
    /\ Len(nhc_alerts) = 1
    /\ nhc_alerts[1].event = "Tropical Storm Watch"

----------------------------------------------------------------------------
(* Properties of the secondary source's documents (SpecAlerts).            *)

C21_failed(doc) == doc.raises \/ doc.status_code # 200

\* the documents with every one but the k-th failing (0 is the outlook)
C21_only(k) ==
    [outlook    |-> IF k = 0 THEN docs.outlook ELSE DocRaises,
     advisories |-> [i \in DOMAIN docs.advisories |->
                       IF i = k THEN docs.advisories[i] ELSE DocRaises]]

\* what the k-th document gives on its own
C21_alone(k) == get_nhc_alerts_for_location(C21_only(k), latitude, longitude)

C21_document(k) == IF k = 0 THEN docs.outlook ELSE docs.advisories[k]

C21_fetches(name) == Cardinality({i \in DOMAIN calls : calls[i] = name})

\* C21: when the secondary source has run for a target inside the region,
\* every one of the six documents was fetched, a document that failed
\* contributes nothing, and the alerts returned are those of each document
\* that succeeded, in document order.
C21_PartialResults ==
    (pc = "analyze" /\ alert_svc.ok /\ ~OutsideRegion)
        => /\ \A name \in DocumentNames : C21_fetches(name) = 1
           /\ \A k \in 0..5 : C21_failed(C21_document(k))
                                  => C21_alone(k) = <<>>
           /\ nhc_alerts = C21_alone(0) \o C21_alone(1) \o C21_alone(2)
                              \o C21_alone(3) \o C21_alone(4)
                              \o C21_alone(5)
           /\ nws_alerts = alert_svc.val \o nhc_alerts

\* the first advisory fails on the network, the third on its status, and
\* the alerts of the outlook and of the second advisory are returned
C21_Witness ==
    /\ pc = "analyze"
    /\ alert_svc.ok
    /\ latitude = ExumaPt[1] /\ longitude = ExumaPt[2]
    /\ docs.outlook = OutlookWatch
    /\ docs.advisories[1] = DocRaises
    /\ docs.advisories[2] = AdvImelda
    /\ docs.advisories[3] = Doc404
    /\ Len(nhc_alerts) >= 2
    /\ nhc_alerts[Len(nhc_alerts)].event = "Tropical Storm Warning"
    /\ nws_alerts = alert_svc.val \o nhc_alerts

----------------------------------------------------------------------------
(* Properties of the arrival estimate (SpecArrival).                       *)

\* the speed in metres per hour: the number found in the movement text by
\* the unit found with it, 15 km/h when none is found
C22_speed(movement) ==
    LET found == speed_match(Lower(movement))
    IN  IF ~found.found THEN 15000
        ELSE IF found.unit \in {"mph", "knots"} THEN found.speed * 1600
        ELSE found.speed * 1000

\* floor(distance / speed), None (-1) when the speed is zero or there is
\* no distance
C22_estimate(threat) ==
    IF threat.distance_m < 0 \/ C22_speed(threat.cone.movement) = 0 THEN -1
    ELSE threat.distance_m \div C22_speed(threat.cone.movement)

\* C22: for every assessed cone with a current position and a non-empty
\* movement text the estimate is floor(distance / speed), the speed being
\* the parsed number by its own unit (x 1.6 for mph and knots) or 15 km/h;
\* it is None only without position or movement, at speed zero or without
\* a distance; a storm at the target itself gets 0 hours.
C22_ArrivalEstimate ==
    \A i \in DOMAIN assessed :
        IF assessed[i].cone.current_position # <<>>
             /\ assessed[i].cone.movement # ""
        THEN assessed[i].estimated_arrival_hours = C22_estimate(assessed[i])
        ELSE assessed[i].estimated_arrival_hours = -1

----------------------------------------------------------------------------
(* Properties of the sequence of external calls (Spec).                    *)

\* the external calls of one analysis, in the order they are made
C23_order ==
    <<"get_all_active_storm_cones", "get_current_storms_with_positions",
      "get_atcf_invest_positions", "get_active_cones",
      "get_hurricane_alerts",
      "MIATWOAT", "MIATCPAT4", "MIATCPAT3", "MIATCPAT1", "MIATCPAT2",
      "MIATCPAT5">>

C23_times(name) == Cardinality({i \in DOMAIN calls : calls[i] = name})

C23_past_fetching == pc \in {"analyze", "done", "raised"}

\* C23: the calls made so far are an initial part of the fixed order, so
\* none is made twice or out of turn, whichever of them failed; once the
\* fetching is over each feed and the alert service were called exactly
\* once; documents are fetched only for a target inside the region.
C23_CallOrder ==
    /\ Len(calls) <= Len(C23_order)
    /\ calls = SubSeq(C23_order, 1, Len(calls))
    /\ \A i \in DOMAIN C23_order : C23_times(C23_order[i]) <= 1
    /\ C23_past_fetching
         => \A i \in 1..5 : C23_times(C23_order[i]) = 1
    /\ Len(calls) > 5 => ~OutsideRegion

\* feed A and every document failed, and each was still called once, in
\* order, followed by the rest
C23_Witness ==
    /\ pc = "done"
    /\ ~feeds.A.ok /\ feeds.B.ok /\ ~feeds.C.ok
    /\ docs = AllDocsFail
    /\ calls = C23_order

----------------------------------------------------------------------------
(* Properties of the line scan of an advisory (SpecAlerts).                *)

\* line k opens a section of the kind ("watch" or "warning")
C24_opens(kind, k) ==
    Contains(C20_lines[k], "tropical storm " \o kind \o " is in effect for")

\* line k ends a section
C24_ends(k) ==
    /\ StartsWith(C20_lines[k], "a ")
    /\ Contains(C20_lines[k], "watch") \/ Contains(C20_lines[k], "warning")

\* line k names a place of a sub-box the target lies in
C24_names_place(k) ==
    \/ /\ C20_northwestern
       /\ \/ Contains(C20_lines[k], "northwestern bahamas")
          \/ Contains(C20_lines[k], "new providence")
    \/ /\ C20_central
       /\ \/ Contains(C20_lines[k], "central bahamas")
          \/ Contains(C20_lines[k], "exuma")

\* some place-name line lies after an opening line of the kind and before
\* the next section-ending line
C24_in_section(kind) ==
    \E o \in DOMAIN C20_lines, p \in DOMAIN C20_lines :
        /\ o < p
        /\ C24_opens(kind, o)
        /\ C24_names_place(p)
        /\ \A k \in (o + 1)..p : ~C24_ends(k)

\* C24: for a target inside a sub-box, one advisory adds at most one
\* tropical storm watch/warning alert; a watch only when a place-name line
\* lies after a watch-opening line and before the next section-ending
\* line, a warning only when one lies so after a warning-opening line; a
\* place name outside any open section adds none.
C24_LineRangeScanner ==
    [][(pc = "advisory" /\ (C20_central \/ C20_northwestern))
         => /\ Len(C20_added) <= 1
            /\ \A i \in DOMAIN C20_added :
                  /\ C20_added[i] = "Tropical Storm Watch"
                       => C24_in_section("watch")
                  /\ C20_added[i] = "Tropical Storm Warning"
                       => C24_in_section("warning")]_vars

\* the place names stand after the watch section was closed: the advisory
\* gives its hurricane warning and no tropical storm alert
C24_Witness ==
    /\ pc = "advisory"
    /\ adv_i = 2
    /\ latitude = NewProvidencePt[1] /\ longitude = NewProvidencePt[2]
    /\ docs.outlook = DocRaises
    /\ docs.advisories[1] = AdvClosed
    /\ Len(nhc_alerts) = 1
    /\ nhc_alerts[1].event = "Hurricane Warning"

====
